---- MODULE Spec2Model ----
(***************************************************************************)
(* Verification model of the deep-algo options trading core:                *)
(*   - WorkflowEngine (src/python/openclaw/engine.py): gated, retried,      *)
(*     escalating multi-step execution;                                     *)
(*   - PositionManager (src/python/ib/position_manager.py) together with    *)
(*     the recommendation/position operations of the Database               *)
(*     (src/python/db/repositories.py), the allocation rule                 *)
(*     (src/python/ib/rules.py) and the approval entry points               *)
(*     (openclaw/discord_bot.py, openclaw/cli.py, openclaw/scheduler.py).   *)
(*                                                                          *)
(* Two specifications share the module.  EngineSpec runs one invocation of  *)
(* WorkflowEngine.run over every workflow within the bounds; ManagerSpec    *)
(* runs the asyncio tasks that execute recommendations, interleaved at      *)
(* their await points, against one database.                                *)
(*                                                                          *)
(* Conventions.  Python None is the empty tuple; a pydantic model value is  *)
(* a one-element tuple <<k>>.  Every agent call returns a fresh value, so   *)
(* that outputs of different attempts can be told apart.  The Database is   *)
(* taken to execute every statement it is given (the error taxonomy of the  *)
(* system has agent, gate, broker and notifier failures, not persistence    *)
(* failures).                                                               *)
(***************************************************************************)
EXTENDS Integers, Sequences, FiniteSets, TLC

VARIABLES
    \* ---- WorkflowEngine --------------------------------------------------
    workflow,       \* WorkflowDef.steps: sequence of StepDef records
    notifier,       \* WorkflowEngine.notifier is set (TRUE) or None (FALSE)
    epc,            \* position of run() / _execute_step()
    run_id,         \* id returned by create_workflow_run (None before)
    context,        \* run(): the evolving context
    stepIdx,        \* run(): index of the step of the for loop
    attempt,        \* _execute_step(): attempt of the for loop
    cur,            \* _execute_step(): output/passed/error of the attempt made
    result,         \* run(): StepResult returned by _execute_step
    all_results,    \* run(): list of StepResult
    retval,         \* what run() returned (None or a WorkflowResult)
    exc,            \* the exception that left run(), None if none did
    workflow_runs,  \* Database table workflow_runs
    step_logs,      \* Database table workflow_step_logs
    createCalls,    \* number of create_workflow_run calls
    completeCalls,  \* sequence of complete_workflow_run calls
    agentCalls,     \* sequence of agent.execute calls with their outcome
    escalations,    \* sequence of notifier.escalate calls
    \* ---- PositionManager, Database, approval entry points ----------------
    rec_size,       \* trade_recommendations.position_size_usd, per id
    rec_entry,      \* trade_recommendations.entry_price_low/high, per id
    rec_status,     \* trade_recommendations.status, per id
    rec_reason,     \* trade_recommendations.rejected_reason, per id
    approved_at,    \* recommendation ids by ascending trade_recommendations.approved_at
    view_open,      \* ApprovalView of the recommendation still has live buttons
    positions,      \* Database table options_positions
    orders,         \* place_order calls received by the broker client
    tpc,            \* position of each asyncio task
    tloc,           \* locals of each task
    triggers,       \* number of ticks, approvals and rejections started so far
    auto_done,      \* recommendations the scheduler has auto-approved
    \* ---- PositionManager._sync_positions -----------------------------------
    portfolio,      \* what IBClient.portfolio() returns: sequence of IBPortfolioItem
    sync_calls,     \* number of _sync_positions calls so far
    sync_log,       \* per completed reconciliation: what it did to the database
    thesis_outcomes, \* update_thesis_outcome calls
    \* ---- PositionManager._tick and its callers -----------------------------
    config,         \* PositionManager.config: ManagerConfig
    tick_pc,        \* position of each caller inside _tick ("idle" outside)
    tick_loc,       \* _tick locals of each caller: approved, positions
    tick_trace,     \* per caller: what its tick in flight (or its last) did
    ticks,          \* number of _tick calls so far
    \* ---- rules.py and _update_and_check, called on their own ---------------
    rule_call,      \* the call: the function and its arguments
    rule_out,       \* what the call returned, None before it returns
    \* ---- IBClient.place_order ----------------------------------------------
    po_pc,          \* position of place_order
    po_elapsed,     \* its local elapsed, seconds waited so far
    po_out,         \* what it returned or raised, None before
    trade           \* the order at the broker: status, tif warning, live

syncVars == <<portfolio, sync_calls, sync_log, thesis_outcomes>>

tickVars == <<config, tick_pc, tick_loc, tick_trace, ticks>>

ruleVars == <<rule_call, rule_out>>

orderVars == <<po_pc, po_elapsed, po_out, trade>>

engineVars == <<workflow, notifier, epc, run_id, context, stepIdx, attempt, cur,
                result, all_results, retval, exc, workflow_runs, step_logs,
                createCalls, completeCalls, agentCalls, escalations>>

managerVars == <<rec_size, rec_entry, rec_status, rec_reason, approved_at,
                 view_open, positions, orders, tpc, tloc, triggers, auto_done>>

vars == <<engineVars, managerVars, syncVars, tickVars, ruleVars, orderVars>>

\* what the engine, and what the execution of recommendations, leave alone
nonEngineVars == <<managerVars, syncVars, tickVars, ruleVars, orderVars>>
nonManagerVars == <<engineVars, syncVars, tickVars, ruleVars, orderVars>>

----------------------------------------------------------------------------
\* Bounds of the model
MaxSteps == 2        \* longest workflow
MaxRetries == 1      \* largest StepDef.max_retries

None == <<>>

\* OnFail (engine.py:23-26)
OnFail == {"retry", "escalate", "abort"}

\* Names a step may give as its agent; only the first is registered.
AgentNames == {"researcher", "ghost"}

\* WorkflowEngine.agents after register_agent (engine.py:85-88, cli.py:149-152)
agents == {"researcher"}

\* StepDef (engine.py:29-39); the id of the i-th step is i (ids are unique).
StepDef == [id : 1..MaxSteps, agent : AgentNames, max_retries : 0..MaxRetries,
            on_fail : OnFail]

\* WorkflowDef.steps (engine.py:42-48)
Workflows == UNION { { w \in [1..n -> StepDef] : \A i \in 1..n : w[i].id = i }
                     : n \in 0..MaxSteps }

initial_input == <<0>>

\* rows workflow_runs already holds when run() starts: one earlier run, so
\* that the id create_workflow_run returns is not the id of the first row
PriorRunChoices == {1}

\* Outcomes of agent.execute followed by step.validate (engine.py:156-166):
\* the validator accepts the output, it refuses it, or one of the two raises
Outcomes == {"valid", "invalid", "raises"}

----------------------------------------------------------------------------
\* Conversions at the persistence boundary

\* BaseModel.model_dump(): the dict of a model value
ModelDump(m) == <<"dict">> \o m

\* json.dumps(x, default=str) if x else None (repositories.py:54, 79)
JsonOrNull(d) == IF d = None THEN None ELSE <<"json">> \o d

\* output.model_dump() if output else None (engine.py:187)
DumpOrNone(m) == IF m = None THEN None ELSE ModelDump(m)

\* error of the attempt: str(e) if it raised, else None (engine.py:154, 166)
ErrorText(outcome) == IF outcome = "raises" THEN <<"error text">> ELSE None

----------------------------------------------------------------------------
\* WorkflowEngine

\* a faulty AttemptRange: one attempt too many
AttemptRangeOffByOne(step) == 0..step.max_retries + 1

\* range(step.max_retries + 1) (engine.py:152)
AttemptRange(step) == 0..step.max_retries

\* a faulty Passed: the validator's verdict is ignored
PassedIgnoringValidator(outcome) == outcome \in {"valid", "invalid"}

\* agent.execute returned and step.validate(output) was true (engine.py:156-166)
Passed(outcome) == outcome = "valid"

\* the output an attempt leaves: the agent's value unless something raised
OutputOf(outcome, value) == IF outcome \in {"valid", "invalid"} THEN value ELSE None

\* result.passed_gate and result.output is not None (engine.py:113)
StepPassed(r) == r.passed_gate /\ r.output # None

\* a faulty Escalates: every failed step is escalated, abort included
EscalatesWhateverOnFail(step) == notifier

\* step.on_fail == OnFail.ESCALATE and self.notifier (engine.py:117)
Escalates(step) == step.on_fail = "escalate" /\ notifier

\* a faulty StepOutputs: only the last result is kept
StepOutputsLastOnly(rs) ==
    IF rs = <<>> THEN <<>>
    ELSE [k \in {rs[Len(rs)].step_id} |-> rs[Len(rs)].output]

\* {r.step_id: r.output for r in all_results if r.output is not None}
\* (engine.py:133-135); a later entry of the same id replaces an earlier one
RECURSIVE StepOutputs(_)
StepOutputs(rs) ==
    IF rs = <<>> THEN <<>>
    ELSE LET n == Len(rs)
             head == StepOutputs(SubSeq(rs, 1, n - 1))
             r == rs[n]
         IN IF r.output = None THEN head
            ELSE [k \in (DOMAIN head) \cup {r.step_id} |->
                    IF k = r.step_id THEN r.output ELSE head[k]]

\* Database.create_workflow_run (repositories.py:29-41)
CreateWorkflowRunRows(rows) == Append(rows, [status |-> "running", result |-> None])

\* Database.complete_workflow_run (repositories.py:43-55)
CompleteWorkflowRunRows(rows, id, status, res) ==
    [rows EXCEPT ![id] = [status |-> status, result |-> JsonOrNull(res)]]

\* Database.log_step (repositories.py:57-82)
LogStepRows(rows, row) ==
    Append(rows, [run_id |-> row.run_id, step_id |-> row.step_id,
                  agent |-> row.agent, attempt |-> row.attempt,
                  input |-> JsonOrNull(row.input), output |-> JsonOrNull(row.output),
                  passed_gate |-> row.passed_gate])

\* run(): create_workflow_run, then the locals (engine.py:96-103)
RunStart ==
    /\ epc = "start"
    /\ workflow_runs' = CreateWorkflowRunRows(workflow_runs)
    /\ run_id' = <<Len(workflow_runs) + 1>>
    /\ createCalls' = createCalls + 1
    /\ context' = initial_input
    /\ all_results' = <<>>
    /\ stepIdx' = 1
    /\ epc' = "for_step"
    /\ UNCHANGED <<workflow, notifier, attempt, cur, result, retval, exc, step_logs,
                   completeCalls, agentCalls, escalations>>
    /\ UNCHANGED nonEngineVars

\* run(): head of the step loop, the agent lookup (engine.py:105-108)
ForStep ==
    /\ epc = "for_step"
    /\ stepIdx <= Len(workflow)
    /\ IF workflow[stepIdx].agent \notin agents
         THEN /\ epc' = "raised"
              /\ exc' = <<"ValueError: agent not registered">>
              /\ UNCHANGED attempt
         ELSE /\ epc' = "execute"
              /\ attempt' = 0
              /\ UNCHANGED exc
    /\ UNCHANGED <<workflow, notifier, run_id, context, stepIdx, cur, result,
                   all_results, retval, workflow_runs, step_logs, createCalls,
                   completeCalls, agentCalls, escalations>>
    /\ UNCHANGED nonEngineVars

\* _execute_step(): one attempt, agent.execute and step.validate
\* (engine.py:152-179)
ExecuteAttempt ==
    /\ epc = "execute"
    /\ attempt \in AttemptRange(workflow[stepIdx])
    /\ \E outcome \in Outcomes :
         LET value == <<Len(agentCalls) + 1>>
             output == OutputOf(outcome, value)
         IN /\ cur' = [step_id |-> workflow[stepIdx].id, attempt |-> attempt,
                       output |-> output, passed_gate |-> Passed(outcome),
                       error |-> ErrorText(outcome)]
            /\ agentCalls' = Append(agentCalls,
                                [step_id |-> workflow[stepIdx].id, input |-> context,
                                 outcome |-> outcome, value |-> value])
    /\ epc' = "log_step"
    /\ UNCHANGED <<workflow, notifier, run_id, context, stepIdx, attempt, result,
                   all_results, retval, exc, workflow_runs, step_logs, createCalls,
                   completeCalls, escalations>>
    /\ UNCHANGED nonEngineVars

\* _execute_step(): db.log_step, then return or go round the loop
\* (engine.py:181-205)
LogStep ==
    /\ epc = "log_step"
    /\ step_logs' = LogStepRows(step_logs,
                        [run_id |-> run_id, step_id |-> workflow[stepIdx].id,
                         agent |-> workflow[stepIdx].agent, attempt |-> attempt,
                         input |-> ModelDump(context), output |-> DumpOrNone(cur.output),
                         passed_gate |-> cur.passed_gate])
    /\ IF cur.passed_gate \/ attempt + 1 \notin AttemptRange(workflow[stepIdx])
         THEN /\ result' = cur
              /\ epc' = "gate"
              /\ UNCHANGED attempt
         ELSE /\ attempt' = attempt + 1
              /\ epc' = "execute"
              /\ UNCHANGED result
    /\ UNCHANGED <<workflow, notifier, run_id, context, stepIdx, cur, all_results,
                   retval, exc, workflow_runs, createCalls, completeCalls, agentCalls,
                   escalations>>
    /\ UNCHANGED nonEngineVars

\* run(): the gate on the StepResult (engine.py:110-117)
Gate ==
    /\ epc = "gate"
    /\ all_results' = Append(all_results, result)
    /\ IF StepPassed(result)
         THEN /\ context' = result.output
              /\ stepIdx' = stepIdx + 1
              /\ epc' = "for_step"
         ELSE /\ epc' = IF Escalates(workflow[stepIdx]) THEN "escalate"
                        ELSE "complete_failed"
              /\ UNCHANGED <<context, stepIdx>>
    /\ UNCHANGED <<workflow, notifier, run_id, attempt, cur, result, retval, exc,
                   workflow_runs, step_logs, createCalls, completeCalls,
                   agentCalls, escalations>>
    /\ UNCHANGED nonEngineVars

\* run(): notifier.escalate, which may raise (engine.py:118-123)
Escalate ==
    /\ epc = "escalate"
    /\ escalations' = Append(escalations,
                         [step_id |-> workflow[stepIdx].id,
                          context |-> ModelDump(context), error |-> result.error])
    /\ \E raises \in BOOLEAN :
         IF raises THEN epc' = "raised" /\ exc' = <<"notifier error">>
                   ELSE epc' = "complete_failed" /\ UNCHANGED exc
    /\ UNCHANGED <<workflow, notifier, run_id, context, stepIdx, attempt, cur,
                   result, all_results, retval, workflow_runs, step_logs,
                   createCalls, completeCalls, agentCalls>>
    /\ UNCHANGED nonEngineVars

\* run(): complete_workflow_run(status="failed"), return None (engine.py:124-125)
CompleteFailed ==
    /\ epc = "complete_failed"
    /\ workflow_runs' = CompleteWorkflowRunRows(workflow_runs, run_id[1], "failed", None)
    /\ completeCalls' = Append(completeCalls, [run_id |-> run_id, status |-> "failed"])
    /\ retval' = None
    /\ epc' = "returned"
    /\ UNCHANGED <<workflow, notifier, run_id, context, stepIdx, attempt, cur,
                   result, all_results, exc, step_logs, createCalls, agentCalls,
                   escalations>>
    /\ UNCHANGED nonEngineVars

\* run(): all steps passed: complete_workflow_run(status="completed") and the
\* WorkflowResult (engine.py:127-140)
CompleteOk ==
    /\ epc = "for_step"
    /\ stepIdx > Len(workflow)
    /\ workflow_runs' = CompleteWorkflowRunRows(workflow_runs, run_id[1], "completed",
                                                ModelDump(context))
    /\ completeCalls' = Append(completeCalls, [run_id |-> run_id, status |-> "completed"])
    /\ retval' = [final_output |-> context, step_outputs |-> StepOutputs(all_results),
                  run_id |-> run_id]
    /\ epc' = "returned"
    /\ UNCHANGED <<workflow, notifier, run_id, context, stepIdx, attempt, cur,
                   result, all_results, exc, step_logs, createCalls, agentCalls,
                   escalations>>
    /\ UNCHANGED nonEngineVars

\* The engine before run() is called, over every workflow within the bounds
EngineInit ==
    /\ workflow \in Workflows
    /\ notifier \in BOOLEAN
    /\ epc = "start"
    /\ run_id = None
    /\ context = None
    /\ stepIdx = 0
    /\ attempt = 0
    /\ cur = None
    /\ result = None
    /\ all_results = <<>>
    /\ retval = <<"not returned">>
    /\ exc = None
    /\ workflow_runs \in { [i \in 1..n |-> [status |-> "completed", result |-> None]]
                           : n \in PriorRunChoices }
    /\ step_logs = <<>>
    /\ createCalls = 0
    /\ completeCalls = <<>>
    /\ agentCalls = <<>>
    /\ escalations = <<>>

EngineNext ==
    \/ RunStart
    \/ ForStep
    \/ ExecuteAttempt
    \/ LogStep
    \/ Gate
    \/ Escalate
    \/ CompleteFailed
    \/ CompleteOk

----------------------------------------------------------------------------
\* PositionManager, the Database operations it uses, and the approval paths

\* Bounds of the model
NumRecs == 1            \* recommendations saved in trade_recommendations
MaxTriggers == 2        \* ticks, approvals and rejections started, in total

\* ManagerConfig.max_allocation_pct (types.py:128)
max_allocation_pct == 10

RecIds == 1..NumRecs

\* asyncio tasks that run _execute_recommendation: the continuous tick loop
\* (scheduler.py:118-148) and the auto-approve path (scheduler.py:300-319)
TickTasks == {"loop"}
Tasks == TickTasks \cup {"auto"}

\* "Options are 100 shares" (position_manager.py:120, 211, 224)
SharesPerContract == 100

\* Values the inputs are drawn from, in dollars
RecChoices == {[size |-> 100, entry |-> <<1, 1>>],      \* position_size_usd,
               [size |-> 150, entry |-> <<0, 0>>]}      \* entry_price_low/high
EquityChoices == {0, 2000}                \* AccountSummary.net_liquidation
MidChoices == {-1, 0, 1}                     \* OptionQuote.mid

\* the contract (ticker, right, strike, expiry) every recommendation names,
\* and the conId the broker qualifies a contract to (client.py:360-372)
RecContract(r) == "A"
ConIdOf(contract) == IF contract = "A" THEN 1 ELSE 3

\* TradeRecommendation.status (schemas/recommendation.py:24-26)
Statuses == {"pending_review", "approved", "rejected", "executing", "filled", "failed"}

\* locals of a task that is not inside _execute_recommendation
NoLocals == [approved |-> <<>>, rec |-> 0, mid |-> None, limit_price |-> 0,
             quantity |-> 0,
             fill |-> None, error |-> None, reason |-> None,
             alloc |-> "unchecked", ordered |-> FALSE, inserted |-> FALSE]

\* a faulty CostBasis: the 100 shares of a contract are left out
CostBasisPerShare(avg_fill_price, quantity) == avg_fill_price * quantity

\* cost_basis = avg_fill_price * quantity * 100 of a position that is
\* inserted (position_manager.py:120, 224)
CostBasis(avg_fill_price, quantity) ==
    avg_fill_price * quantity * SharesPerContract

\* a faulty CheckAllocation: a trade that reaches the cap exactly is rejected
CheckAllocationBelowCap(new_position_usd, current_options_total_usd, account_equity) ==
    IF account_equity <= 0
      THEN [approved |-> FALSE,
            reason |-> <<"Rejected: account equity is zero or negative">>]
      ELSE LET after_trade == current_options_total_usd + new_position_usd
           IN IF after_trade * 100 >= account_equity * max_allocation_pct
                THEN [approved |-> FALSE,
                      reason |-> <<"Rejected: would be", after_trade,
                                   current_options_total_usd, max_allocation_pct>>]
                ELSE [approved |-> TRUE,
                      reason |-> <<"Approved: utilized", after_trade>>]

\* check_allocation (rules.py:100-130): <<approved, reason>>
CheckAllocation(new_position_usd, current_options_total_usd, account_equity) ==
    IF account_equity <= 0
      THEN [approved |-> FALSE,
            reason |-> <<"Rejected: account equity is zero or negative">>]
      ELSE LET after_trade == current_options_total_usd + new_position_usd
           IN \* after_trade > account_equity * max_allocation_pct / 100
              IF after_trade * 100 > account_equity * max_allocation_pct
                THEN [approved |-> FALSE,
                      reason |-> <<"Rejected: would be", after_trade,
                                   current_options_total_usd, max_allocation_pct>>]
                ELSE [approved |-> TRUE,
                      reason |-> <<"Approved: utilized", after_trade>>]

\* Database.get_total_options_exposure (repositories.py:257-261)
RECURSIVE TotalOptionsExposure(_)
TotalOptionsExposure(rows) ==
    IF rows = <<>> THEN 0
    ELSE (IF rows[1].status = "open" THEN rows[1].cost_basis ELSE 0)
         + TotalOptionsExposure(Tail(rows))

\* Database.insert_position (repositories.py:193-214): the row is stored open
\* under the next id; opened_at = NOW() makes it the latest row
InsertPosition(rows, position) ==
    Append(rows, [id |-> Len(rows) + 1,
                  recommendation_id |-> position.recommendation_id,
                  ib_con_id |-> position.ib_con_id,
                  contract |-> position.contract,
                  quantity |-> position.quantity,
                  avg_fill_price |-> position.avg_fill_price,
                  current_price |-> position.current_price,
                  cost_basis |-> position.cost_basis,
                  unrealized_pnl |-> position.unrealized_pnl,
                  realized_pnl |-> 0,
                  status |-> "open",
                  close_reason |-> None])

\* SET approved_at = NOW(): the row becomes the one approved last
StampNow(order, id) == Append(SelectSeq(order, LAMBDA r : r # id), id)

\* Database.get_approved_recommendations (repositories.py:305-313):
\* WHERE status = 'approved' ORDER BY approved_at ASC
GetApprovedRecommendations ==
    SelectSeq(approved_at, LAMBDA r : rec_status[r] = "approved")

\* Database.update_recommendation_status (repositories.py:315-327):
\* SET status = $2, rejected_reason = $3 WHERE id = $1
UpdateRecommendationStatus(id, status, reason) ==
    /\ rec_status' = [rec_status EXCEPT ![id] = status]
    /\ rec_reason' = [rec_reason EXCEPT ![id] = reason]
    /\ UNCHANGED approved_at

\* Database.approve_recommendation (repositories.py:329-337):
\* SET status = 'approved', approved_at = NOW() WHERE id = $1
ApproveRecommendation(id) ==
    /\ rec_status' = [rec_status EXCEPT ![id] = "approved"]
    /\ approved_at' = StampNow(approved_at, id)
    /\ UNCHANGED rec_reason

\* Database.reject_recommendation (repositories.py:339-348):
\* SET status = 'rejected', rejected_reason = $2 WHERE id = $1
RejectRecommendation(id, reason) ==
    /\ rec_status' = [rec_status EXCEPT ![id] = "rejected"]
    /\ rec_reason' = [rec_reason EXCEPT ![id] = reason]
    /\ UNCHANGED approved_at

\* a faulty AfterAllocation: the verdict of the check is ignored
AfterAllocationIgnored(approved) == "quote"

\* The exceptions a collaborator call (broker, notifier) may raise: one built
\* with a message (client.py:441-444) and one built without, as TimeoutError()
\* of an expired wait
Exceptions == {[type |-> "RuntimeError", args |-> <<"Order not filled">>],
               [type |-> "TimeoutError", args |-> <<>>]}

\* str(e) (position_manager.py:255): the message of e, "" if it has none
Str(e) == IF e.args = <<>> THEN <<"">> ELSE <<e.args[1]>>

\* the statement after check_allocation (position_manager.py:178-183)
AfterAllocation(approved) == IF approved THEN "quote" ELSE "alloc_failed"

\* (entry_price_low + entry_price_high) / 2 (position_manager.py:198)
EntryMid(r) == (rec_entry[r][1] + rec_entry[r][2]) \div 2

\* a faulty LimitPrice: a quote that is not positive is never replaced
LimitPriceNoFallback(mid, entry_mid) == IF mid <= 0 THEN None ELSE <<mid>>

\* the limit price of the BUY order (position_manager.py:194-209): quote.mid,
\* or entry_mid if the quote is not positive; None if entry_mid is not
\* positive either and the recommendation fails
LimitPrice(mid, entry_mid) ==
    IF mid <= 0
      THEN IF entry_mid > 0 THEN <<entry_mid>> ELSE None
      ELSE <<mid>>

\* max(1, int(position_usd / price_per_contract)) (position_manager.py:211-212)
Quantity(position_usd, limit_price) ==
    LET q == position_usd \div (limit_price * SharesPerContract)
    IN IF q < 1 THEN 1 ELSE q

\* a task leaves _execute_recommendation: _tick goes on with the next
\* recommendation of its list (position_manager.py:73-74), the auto-approve
\* path is over (scheduler.py:316)
Leave(t) ==
    IF tloc[t].approved # <<>>
      THEN /\ tpc' = [tpc EXCEPT ![t] = "exec_begin"]
           /\ tloc' = [tloc EXCEPT ![t] = [NoLocals EXCEPT
                                             !.approved = Tail(tloc[t].approved),
                                             !.rec = Head(tloc[t].approved)]]
      ELSE /\ tpc' = [tpc EXCEPT ![t] = "idle"]
           /\ tloc' = [tloc EXCEPT ![t] = NoLocals]

\* _tick(), step 2: get_approved_recommendations and the head of the loop over
\* them (position_manager.py:71-74).  Steps 1 and 3 of _tick (_sync_positions
\* and the stop/target rules) neither read nor write trade_recommendations
\* and place no BUY order; they are left out of this part of the model.
TickStart(t) ==
    /\ t \in TickTasks
    /\ tpc[t] = "idle"
    /\ triggers < MaxTriggers
    /\ triggers' = triggers + 1
    /\ LET approved == GetApprovedRecommendations
       IN IF approved = <<>>
            THEN UNCHANGED <<tpc, tloc>>
            ELSE /\ tpc' = [tpc EXCEPT ![t] = "exec_begin"]
                 /\ tloc' = [tloc EXCEPT ![t] = [NoLocals EXCEPT
                                                   !.approved = Tail(approved),
                                                   !.rec = Head(approved)]]
    /\ UNCHANGED <<rec_size, rec_entry, rec_status, rec_reason, approved_at,
                   view_open, positions, orders, auto_done>>
    /\ UNCHANGED nonManagerVars

\* _execute_recommendation(): update_recommendation_status(rec_id, "executing")
\* (position_manager.py:168)
ExecMarkExecuting(t) ==
    /\ tpc[t] = "exec_begin"
    /\ UpdateRecommendationStatus(tloc[t].rec, "executing", None)
    /\ tpc' = [tpc EXCEPT ![t] = "check_allocation"]
    /\ UNCHANGED <<rec_size, rec_entry, view_open, positions, orders, tloc, triggers, auto_done>>
    /\ UNCHANGED nonManagerVars

\* _execute_recommendation(): ib.account_summary(), which may raise,
\* get_total_options_exposure() and check_allocation
\* (position_manager.py:171-178)
ExecCheckAllocation(t) ==
    /\ tpc[t] = "check_allocation"
    /\ \/ \E eq \in EquityChoices :
            LET exposure == TotalOptionsExposure(positions)
                check == CheckAllocation(rec_size[tloc[t].rec], exposure, eq)
            IN /\ tloc' = [tloc EXCEPT
                             \* the reason of an approval is never read again
                             ![t].reason = IF check.approved THEN None
                                           ELSE check.reason,
                             ![t].alloc = IF check.approved THEN "approved"
                                          ELSE "rejected"]
               /\ tpc' = [tpc EXCEPT ![t] = AfterAllocation(check.approved)]
       \/ \E e \in Exceptions :
            /\ tloc' = [tloc EXCEPT ![t].error = e]
            /\ tpc' = [tpc EXCEPT ![t] = "except"]
    /\ UNCHANGED <<rec_size, rec_entry, rec_status, rec_reason, approved_at,
                   view_open, positions, orders, triggers, auto_done>>
    /\ UNCHANGED nonManagerVars

\* _execute_recommendation(): update_recommendation_status(rec_id, "failed",
\* reason) and return (position_manager.py:179-181)
ExecAllocFailed(t) ==
    /\ tpc[t] = "alloc_failed"
    /\ UpdateRecommendationStatus(tloc[t].rec, "failed", tloc[t].reason)
    /\ Leave(t)
    /\ UNCHANGED <<rec_size, rec_entry, view_open, positions, orders, triggers, auto_done>>
    /\ UNCHANGED nonManagerVars

\* _execute_recommendation(): get_option_quote, which may raise, the limit
\* price with its fallback, and the quantity (position_manager.py:194-212)
ExecQuote(t) ==
    /\ tpc[t] = "quote"
    /\ \/ \E mid \in MidChoices :
            LET limit_price == LimitPrice(mid, EntryMid(tloc[t].rec))
            IN IF limit_price = None
                 THEN /\ tpc' = [tpc EXCEPT ![t] = "zero_quote"]
                      /\ tloc' = [tloc EXCEPT ![t].mid = <<mid>>]
                 ELSE /\ tpc' = [tpc EXCEPT ![t] = "place_order"]
                      /\ tloc' = [tloc EXCEPT
                                    ![t].mid = <<mid>>,
                                    ![t].limit_price = limit_price[1],
                                    ![t].quantity = Quantity(rec_size[tloc[t].rec],
                                                             limit_price[1])]
       \/ \E e \in Exceptions :
            /\ tloc' = [tloc EXCEPT ![t].error = e]
            /\ tpc' = [tpc EXCEPT ![t] = "except"]
    /\ UNCHANGED <<rec_size, rec_entry, rec_status, rec_reason, approved_at,
                   view_open, positions, orders, triggers, auto_done>>
    /\ UNCHANGED nonManagerVars

\* _execute_recommendation(): update_recommendation_status(rec_id, "failed",
\* "Zero or negative quote") and return (position_manager.py:205-209)
ExecZeroQuote(t) ==
    /\ tpc[t] = "zero_quote"
    /\ UpdateRecommendationStatus(tloc[t].rec, "failed", <<"Zero or negative quote">>)
    /\ Leave(t)
    /\ UNCHANGED <<rec_size, rec_entry, view_open, positions, orders, triggers, auto_done>>
    /\ UNCHANGED nonManagerVars

\* _execute_recommendation(): ib.place_order(side="BUY", order_type="LMT"):
\* the order is filled (Fill), accepted and still pending (Fill with
\* pending=True), or rejected or timed out (place_order raises)
\* (position_manager.py:215-221, client.py:340-469)
ExecPlaceOrder(t) ==
    /\ tpc[t] = "place_order"
    /\ orders' = Append(orders, [rec |-> tloc[t].rec, side |-> "BUY",
                                 quantity |-> tloc[t].quantity,
                                 limit_price |-> tloc[t].limit_price])
    /\ \/ \E pending \in BOOLEAN :
            /\ tloc' = [tloc EXCEPT
                          ![t].fill = [quantity |-> tloc[t].quantity,
                                       avg_fill_price |-> tloc[t].limit_price,
                                       con_id |-> <<ConIdOf(RecContract(tloc[t].rec))>>,
                                       pending |-> pending],
                          ![t].ordered = TRUE]
            /\ tpc' = [tpc EXCEPT ![t] = "insert"]
       \/ \E e \in Exceptions :
            /\ tloc' = [tloc EXCEPT ![t].error = e, ![t].ordered = TRUE]
            /\ tpc' = [tpc EXCEPT ![t] = "except"]
    /\ UNCHANGED <<rec_size, rec_entry, rec_status, rec_reason, approved_at,
                   view_open, positions, triggers, auto_done>>
    /\ UNCHANGED nonManagerVars

\* _execute_recommendation(): insert_position with cost_basis =
\* fill.avg_fill_price * fill.quantity * 100 (position_manager.py:223-238)
ExecInsert(t) ==
    /\ tpc[t] = "insert"
    /\ positions' = InsertPosition(positions,
                        [recommendation_id |-> <<tloc[t].rec>>,
                         ib_con_id |-> tloc[t].fill.con_id,
                         contract |-> RecContract(tloc[t].rec),
                         quantity |-> tloc[t].fill.quantity,
                         avg_fill_price |-> tloc[t].fill.avg_fill_price,
                         current_price |-> tloc[t].fill.avg_fill_price,
                         cost_basis |-> CostBasis(tloc[t].fill.avg_fill_price,
                                                  tloc[t].fill.quantity),
                         unrealized_pnl |-> 0])
    /\ tloc' = [tloc EXCEPT ![t].inserted = TRUE]
    /\ tpc' = [tpc EXCEPT ![t] = "mark_filled"]
    /\ UNCHANGED <<rec_size, rec_entry, rec_status, rec_reason, approved_at,
                   view_open, orders, triggers, auto_done>>
    /\ UNCHANGED nonManagerVars

\* _execute_recommendation(): update_recommendation_status(rec_id, "filled"),
\* then notifier.send, skipped without a notifier, which may raise
\* (position_manager.py:240-251)
ExecMarkFilled(t) ==
    /\ tpc[t] = "mark_filled"
    /\ UpdateRecommendationStatus(tloc[t].rec, "filled", None)
    /\ \/ /\ Leave(t)
       \/ \E e \in Exceptions :
            /\ tloc' = [tloc EXCEPT ![t].error = e]
            /\ tpc' = [tpc EXCEPT ![t] = "except"]
    /\ UNCHANGED <<rec_size, rec_entry, view_open, positions, orders, triggers, auto_done>>
    /\ UNCHANGED nonManagerVars

\* a faulty ExecExcept: the exception is caught and nothing is written
ExecExceptLogsOnly(t) ==
    /\ tpc[t] = "except"
    /\ Leave(t)
    /\ UNCHANGED <<rec_size, rec_entry, rec_status, rec_reason, approved_at,
                   view_open, positions, orders, triggers, auto_done>>
    /\ UNCHANGED nonManagerVars

\* _execute_recommendation(): except Exception as e:
\* update_recommendation_status(rec_id, "failed", str(e))
\* (position_manager.py:253-255)
ExecExcept(t) ==
    /\ tpc[t] = "except"
    /\ UpdateRecommendationStatus(tloc[t].rec, "failed", Str(tloc[t].error))
    /\ Leave(t)
    /\ UNCHANGED <<rec_size, rec_entry, view_open, positions, orders, triggers, auto_done>>
    /\ UNCHANGED nonManagerVars

\* Scheduler._auto_approve_recommendation(): approve_recommendation
\* (scheduler.py:300-304)
AutoApprove(r) ==
    /\ tpc["auto"] = "idle"
    /\ r \notin auto_done
    /\ triggers < MaxTriggers
    /\ triggers' = triggers + 1
    /\ auto_done' = auto_done \cup {r}
    /\ ApproveRecommendation(r)
    /\ tpc' = [tpc EXCEPT !["auto"] = "auto_notify"]
    /\ tloc' = [tloc EXCEPT !["auto"] = [NoLocals EXCEPT !.rec = r]]
    /\ UNCHANGED <<rec_size, rec_entry, view_open, positions, orders>>
    /\ UNCHANGED nonManagerVars

\* Scheduler._auto_approve_recommendation(): notifier.send, then
\* get_recommendation and _execute_recommendation; an exception ends the path
\* (scheduler.py:306-319)
AutoNotify ==
    /\ tpc["auto"] = "auto_notify"
    /\ \/ tpc' = [tpc EXCEPT !["auto"] = "exec_begin"]
       \/ tpc' = [tpc EXCEPT !["auto"] = "idle"]
    /\ UNCHANGED <<rec_size, rec_entry, rec_status, rec_reason, approved_at,
                   view_open, positions, orders, tloc, triggers, auto_done>>
    /\ UNCHANGED nonManagerVars

\* ApprovalView.approve_button: approve_recommendation, then the buttons are
\* disabled (discord_bot.py:26-59)
ApproveButton(r) ==
    /\ view_open[r]
    /\ triggers < MaxTriggers
    /\ triggers' = triggers + 1
    /\ ApproveRecommendation(r)
    /\ view_open' = [view_open EXCEPT ![r] = FALSE]
    /\ UNCHANGED <<rec_size, rec_entry, positions, orders, tpc, tloc, auto_done>>
    /\ UNCHANGED nonManagerVars

\* ApprovalView.reject_button: reject_recommendation, then the buttons are
\* disabled (discord_bot.py:67-98)
RejectButton(r) ==
    /\ view_open[r]
    /\ triggers < MaxTriggers
    /\ triggers' = triggers + 1
    /\ RejectRecommendation(r, None)
    /\ view_open' = [view_open EXCEPT ![r] = FALSE]
    /\ UNCHANGED <<rec_size, rec_entry, positions, orders, tpc, tloc, auto_done>>
    /\ UNCHANGED nonManagerVars

\* CLI approve command: approve_recommendation(args.rec_id) (cli.py:315-324)
CliApprove(r) ==
    /\ triggers < MaxTriggers
    /\ triggers' = triggers + 1
    /\ ApproveRecommendation(r)
    /\ UNCHANGED <<rec_size, rec_entry, view_open, positions, orders, tpc, tloc,
                   auto_done>>
    /\ UNCHANGED nonManagerVars

\* The database after save_recommendation stored the recommendations as
\* pending_review (repositories.py:148-184) and the notifier posted their
\* ApprovalView; no task has started
ManagerInit ==
    /\ \E c \in [RecIds -> RecChoices] :
         /\ rec_size = [r \in RecIds |-> c[r].size]
         /\ rec_entry = [r \in RecIds |-> c[r].entry]
    /\ rec_status = [r \in RecIds |-> "pending_review"]
    /\ rec_reason = [r \in RecIds |-> None]
    /\ approved_at = <<>>
    /\ view_open = [r \in RecIds |-> TRUE]
    /\ positions = <<>>
    /\ orders = <<>>
    /\ tpc = [t \in Tasks |-> "idle"]
    /\ tloc = [t \in Tasks |-> NoLocals]
    /\ triggers = 0
    /\ auto_done = {}

ManagerNext ==
    \/ \E t \in Tasks : TickStart(t)
    \/ \E t \in Tasks : ExecMarkExecuting(t)
    \/ \E t \in Tasks : ExecCheckAllocation(t)
    \/ \E t \in Tasks : ExecAllocFailed(t)
    \/ \E t \in Tasks : ExecQuote(t)
    \/ \E t \in Tasks : ExecZeroQuote(t)
    \/ \E t \in Tasks : ExecPlaceOrder(t)
    \/ \E t \in Tasks : ExecInsert(t)
    \/ \E t \in Tasks : ExecMarkFilled(t)
    \/ \E t \in Tasks : ExecExcept(t)
    \/ \E r \in RecIds : AutoApprove(r)
    \/ AutoNotify
    \/ \E r \in RecIds : ApproveButton(r)
    \/ \E r \in RecIds : RejectButton(r)
    \/ \E r \in RecIds : CliApprove(r)

----------------------------------------------------------------------------
\* PositionManager._sync_positions: reconciliation with the broker portfolio

\* Bounds of the model
MaxItems == 2           \* longest broker portfolio
MaxRows == 2            \* rows of options_positions before the first sync
MaxSyncs == 2           \* _sync_positions calls

\* IBPortfolioItem (types.py:43-58) values the portfolio is drawn from.  The
\* contract stands for (symbol, right, strike, expiry).  Contract ids 1 and 2
\* are two contracts with the same (symbol, right, strike, expiry), as two
\* trading classes of one underlying have.
ItemChoices ==
    {[con_id |-> 1, contract |-> "A", sec_type |-> "OPT", position |-> 2,
      avg_cost |-> 2, market_price |-> 3, unrealized_pnl |-> 200],
     [con_id |-> 2, contract |-> "A", sec_type |-> "OPT", position |-> 1,
      avg_cost |-> 1, market_price |-> 1, unrealized_pnl |-> 0],
     [con_id |-> 3, contract |-> "B", sec_type |-> "OPT", position |-> 2,
      avg_cost |-> 4, market_price |-> 3, unrealized_pnl |-> -200],
     [con_id |-> 3, contract |-> "B", sec_type |-> "OPT", position |-> -1,
      avg_cost |-> 2, market_price |-> 1, unrealized_pnl |-> 100],
     [con_id |-> 4, contract |-> "S", sec_type |-> "STK", position |-> 10,
      avg_cost |-> 50, market_price |-> 60, unrealized_pnl |-> 100]}

Portfolios ==
    {p \in UNION { [1..n -> ItemChoices] : n \in 0..MaxItems } :
        \A i, j \in 1..Len(p) : p[i].con_id = p[j].con_id => i = j}

\* rows options_positions may hold before the first sync: of an executed
\* recommendation or external, with or without ib_con_id, open or closed
RowChoices ==
    {[recommendation_id |-> <<1>>, ib_con_id |-> None, contract |-> "A", status |-> "open"],
     [recommendation_id |-> <<1>>, ib_con_id |-> <<1>>, contract |-> "A", status |-> "open"],
     [recommendation_id |-> None, ib_con_id |-> <<2>>, contract |-> "A", status |-> "open"],
     [recommendation_id |-> <<1>>, ib_con_id |-> <<3>>, contract |-> "B", status |-> "open"],
     [recommendation_id |-> None, ib_con_id |-> None, contract |-> "B", status |-> "open"],
     [recommendation_id |-> <<1>>, ib_con_id |-> <<1>>, contract |-> "A", status |-> "closed"]}

\* the options_positions row of id i for a choice: one contract bought at 1
StoredRow(i, c) ==
    [id |-> i, recommendation_id |-> c.recommendation_id,
     ib_con_id |-> c.ib_con_id, contract |-> c.contract, quantity |-> 1,
     avg_fill_price |-> 1, current_price |-> 1,
     cost_basis |-> 1 * 1 * SharesPerContract, unrealized_pnl |-> 0,
     realized_pnl |-> 0, status |-> c.status,
     close_reason |-> IF c.status = "closed" THEN <<"manual">> ELSE None]

Databases == UNION { { [i \in 1..n |-> StoredRow(i, f[i])] : f \in [1..n -> RowChoices] }
                     : n \in 0..MaxRows }

\* abs(ib_item.position) (position_manager.py:120, 128)
Abs(x) == IF x < 0 THEN -x ELSE x

\* [i for i in ib_items if i.sec_type == "OPT" and i.position > 0]
\* (position_manager.py:91)
LongOptions(ib_items) ==
    SelectSeq(ib_items, LAMBDA i : i.sec_type = "OPT" /\ i.position > 0)

\* Database.get_open_positions (repositories.py:183-191), by opened_at
GetOpenPositions(rows) == SelectSeq(rows, LAMBDA p : p.status = "open")

\* a faulty DbByConId: the stored ids are never used
DbByConIdNever(db_positions, con_id) == 0

\* db_by_con_id.get(con_id) (position_manager.py:94-96, 102): the id of the
\* row the dict holds for con_id, the last one with it; 0 for no row
DbByConId(db_positions, con_id) ==
    LET hits == SelectSeq(db_positions, LAMBDA p : p.ib_con_id = <<con_id>>)
    IN IF hits = <<>> THEN 0 ELSE hits[Len(hits)].id

\* Database.find_position_by_contract (repositories.py:276-293): the latest
\* open row of the contract; 0 for no row
FindPositionByContract(rows, contract) ==
    LET hits == SelectSeq(rows, LAMBDA p : p.status = "open" /\ p.contract = contract)
    IN IF hits = <<>> THEN 0 ELSE hits[Len(hits)].id

\* Database.update_position_con_id (repositories.py:295-301)
UpdatePositionConId(rows, position_id, con_id) ==
    [rows EXCEPT ![position_id].ib_con_id = <<con_id>>]

\* Database.update_position_price (repositories.py:216-228)
UpdatePositionPrice(rows, position_id, current_price, unrealized_pnl) ==
    [rows EXCEPT ![position_id].current_price = current_price,
                 ![position_id].unrealized_pnl = unrealized_pnl]

\* Database.close_position (repositories.py:245-255)
ClosePosition(rows, position_id, reason, realized_pnl) ==
    [rows EXCEPT ![position_id].status = "closed",
                 ![position_id].close_reason = <<reason>>,
                 ![position_id].realized_pnl = realized_pnl]

\* Database.get_thesis_id_for_position (repositories.py:567-578): the thesis
\* of the recommendation of the position; every recommendation has a thesis,
\* here the one of its own number
GetThesisIdForPosition(rows, position_id) == rows[position_id].recommendation_id

\* _sync_positions(): the body of the loop over ib_options for one item
\* (position_manager.py:100-137).  st carries the table, seen_db_ids and what
\* was done so far, n counting the items; db_positions is the list read
\* before the loop.
SyncItem(st, ib_item, db_positions) ==
    LET by_id == DbByConId(db_positions, ib_item.con_id)
        by_contract == IF by_id = 0
                         THEN FindPositionByContract(st.db, ib_item.contract)
                         ELSE 0
        db_pos == IF by_id # 0 THEN by_id ELSE by_contract
        db1 == IF by_contract # 0
                 THEN UpdatePositionConId(st.db, by_contract, ib_item.con_id)
                 ELSE st.db
        db2 == IF db_pos # 0
                 THEN UpdatePositionPrice(db1, db_pos, ib_item.market_price,
                                          ib_item.unrealized_pnl)
                 ELSE db1
    IN IF db_pos # 0
         THEN [st EXCEPT
                 !.db = db2,
                 !.n = st.n + 1,
                 !.seen = st.seen \cup {db_pos},
                 !.matched = Append(st.matched,
                                    [n |-> st.n + 1, item |-> ib_item, row |-> db_pos,
                                     by |-> IF by_id # 0 THEN "con_id" ELSE "contract",
                                     stored |-> db2[db_pos]]),
                 !.backfilled = IF by_contract # 0
                                  THEN Append(st.backfilled, by_contract)
                                  ELSE st.backfilled]
         ELSE [st EXCEPT
                 !.n = st.n + 1,
                 !.db = InsertPosition(st.db,
                          [recommendation_id |-> None,
                           ib_con_id |-> <<ib_item.con_id>>,
                           contract |-> ib_item.contract,
                           quantity |-> Abs(ib_item.position),
                           avg_fill_price |-> ib_item.avg_cost,
                           current_price |-> ib_item.market_price,
                           cost_basis |-> CostBasis(ib_item.avg_cost,
                                                    Abs(ib_item.position)),
                           unrealized_pnl |-> ib_item.unrealized_pnl]),
                 !.inserted = Append(st.inserted,
                                     [n |-> st.n + 1, item |-> ib_item,
                                      row |-> Len(st.db) + 1,
                                      stored |-> [id |-> Len(st.db) + 1,
                                                  recommendation_id |-> None,
                                                  ib_con_id |-> <<ib_item.con_id>>,
                                                  status |-> "open"]])]

\* _sync_positions(): for ib_item in ib_options (position_manager.py:100)
RECURSIVE SyncItems(_, _, _)
SyncItems(st, ib_options, db_positions) ==
    IF ib_options = <<>> THEN st
    ELSE SyncItems(SyncItem(st, Head(ib_options), db_positions),
                   Tail(ib_options), db_positions)

\* ib_con_ids = {i.con_id for i in ib_options} (position_manager.py:140)
IbConIds(ib_options) == {ib_options[i].con_id : i \in 1..Len(ib_options)}

\* _sync_positions(): the condition under which a row of db_positions is
\* closed (position_manager.py:142-144)
IsStale(db_pos, seen_db_ids, ib_con_ids) ==
    /\ db_pos.id \notin seen_db_ids
    /\ db_pos.ib_con_id # None
    /\ db_pos.ib_con_id[1] \notin ib_con_ids

\* _sync_positions(): for db_pos in db_positions, closing the stale rows and
\* recording the outcome on the thesis (position_manager.py:141-160)
RECURSIVE CloseStale(_, _, _)
CloseStale(st, db_positions, ib_con_ids) ==
    IF db_positions = <<>> THEN st
    ELSE LET db_pos == Head(db_positions)
             thesis_id == GetThesisIdForPosition(st.db, db_pos.id)
             st1 == IF IsStale(db_pos, st.seen, ib_con_ids)
                      THEN [st EXCEPT
                              !.db = ClosePosition(st.db, db_pos.id, "external", 0),
                              !.closed = Append(st.closed, db_pos.id),
                              !.thesis = IF thesis_id # None
                                           THEN Append(st.thesis,
                                                  [thesis_id |-> thesis_id,
                                                   realized_pnl |-> 0,
                                                   close_reason |-> "external",
                                                   position_id |-> db_pos.id])
                                           ELSE st.thesis]
                      ELSE st
         IN CloseStale(st1, Tail(db_positions), ib_con_ids)

\* _sync_positions() after portfolio() returned ib_items, on the table rows
\* (position_manager.py:90-160)
Reconcile(rows, ib_items) ==
    LET ib_options == LongOptions(ib_items)
        db_positions == GetOpenPositions(rows)
        st0 == [db |-> rows, n |-> 0, seen |-> {}, matched |-> <<>>, inserted |-> <<>>,
                backfilled |-> <<>>, closed |-> <<>>, thesis |-> <<>>]
        st1 == SyncItems(st0, ib_options, db_positions)
    IN CloseStale(st1, db_positions, IbConIds(ib_options))

\* _sync_positions(): portfolio() returns and the reconciliation is made
\* (position_manager.py:82-160)
SyncPositions ==
    /\ sync_calls < MaxSyncs
    /\ sync_calls' = sync_calls + 1
    /\ \E st \in {Reconcile(positions, portfolio)} :
          /\ positions' = st.db
          /\ thesis_outcomes' = thesis_outcomes \o st.thesis
          /\ sync_log' = Append(sync_log,
                                [before |-> positions, after |-> st.db,
                                 options |-> LongOptions(portfolio),
                                 matched |-> st.matched,
                                 inserted |-> st.inserted,
                                 backfilled |-> st.backfilled,
                                 closed |-> st.closed, thesis |-> st.thesis])
    /\ UNCHANGED <<portfolio, rec_size, rec_entry, rec_status, rec_reason,
                   approved_at, view_open, orders, tpc, tloc, triggers, auto_done>>
    /\ UNCHANGED <<engineVars, tickVars, ruleVars, orderVars>>

\* _sync_positions(): portfolio() raises, the sync is skipped
\* (position_manager.py:84-88)
SyncSkipped ==
    /\ sync_calls < MaxSyncs
    /\ sync_calls' = sync_calls + 1
    /\ UNCHANGED <<portfolio, sync_log, thesis_outcomes>>
    /\ UNCHANGED <<engineVars, managerVars, tickVars, ruleVars, orderVars>>

\* a database and a broker portfolio, before the first sync; the portfolio
\* does not change afterwards
SyncInit ==
    /\ portfolio \in Portfolios
    /\ sync_calls = 0
    /\ sync_log = <<>>
    /\ thesis_outcomes = <<>>

SyncNext ==
    \/ SyncPositions
    \/ SyncSkipped

\* no sync is made
SyncQuiet ==
    /\ portfolio = <<>>
    /\ sync_calls = 0
    /\ sync_log = <<>>
    /\ thesis_outcomes = <<>>

-----------------------------------------------------------------------------
\* PositionManager._tick, the rule check of the open positions, and the
\* callers of _tick.  Each of the three steps of _tick awaits the database and
\* the broker, so the callers interleave between (and inside) the steps; here
\* a reconciliation, the execution of one recommendation and the check of one
\* position are one step each.  The manager has no notifier.

\* Bounds of the model
MaxTicks == 2           \* _tick calls, of all callers together

\* Callers of PositionManager._tick(), tasks of one event loop: the
\* continuous loop (scheduler.py:118-148) and the cron jobs at 12:30 and
\* 16:30 ET (scheduler.py:406-416).  The !tick command
\* (discord_bot.py:689-700) calls it as the cron jobs do.
TickCallers == {"loop", "cron"}

\* ManagerConfig (types.py:120-129): the defaults, and thresholds of zero
ConfigChoices ==
    {[hard_stop_pct |-> 50, profit_target_1_pct |-> 50,
      profit_target_2_pct |-> 100, time_stop_dte |-> 7],
     [hard_stop_pct |-> 0, profit_target_1_pct |-> 0,
      profit_target_2_pct |-> 0, time_stop_dte |-> 7]}

\* OptionQuote.mid (types.py:14-20): a number, no value, or not a number
Num(m) == <<"num", m>>
NullMid == <<"null">>
NaNMid == <<"nan">>

\* the prices get_option_quote returns as OptionQuote.mid in _update_and_check
CheckMidChoices == {0, 1, 3}

\* what get_option_quote does in _update_and_check of a tick: it raises
\* (None) or returns a quote <<mid>>
CheckQuoteChoices ==
    {None} \cup {<<NaNMid>>} \cup {<<Num(m)>> : m \in CheckMidChoices}

\* OptionsPosition.days_to_expiry (types.py:95-98) today, by contract
DaysToExpiry(pos) == IF pos.contract = "B" THEN 5 ELSE 30

\* a faulty TickOrder: the positions are checked before the reconciliation
RulesFirst == <<"open", "check", "sync", "approved", "execute">>

\* the steps of _tick in the order of its statements (position_manager.py:
\* 66-80): _sync_positions, get_approved_recommendations, the loop of
\* _execute_recommendation, get_open_positions, the loop of _update_and_check
TickOrder == <<"sync", "approved", "execute", "open", "check">>

\* the step that follows a step of _tick; "idle" after the last
StepAfter(step) ==
    LET i == CHOOSE j \in 1..Len(TickOrder) : TickOrder[j] = step
    IN IF i = Len(TickOrder) THEN "idle" ELSE TickOrder[i + 1]

\* where _tick is when it has reached a step with the locals loc: a for loop
\* over an empty list is passed at once (position_manager.py:73, 78)
RECURSIVE Reach(_, _)
Reach(step, loc) ==
    IF step = "execute" /\ loc.approved = <<>> THEN Reach(StepAfter(step), loc)
    ELSE IF step = "check" /\ loc.positions = <<>> THEN Reach(StepAfter(step), loc)
    ELSE step

\* locals of _tick before its first statement
NoTickLocals == [approved |-> <<>>, positions |-> <<>>]

\* OptionsPosition.pnl_pct() >= pct (types.py:89-93), pnl_pct being
\* unrealized_pnl / cost_basis * 100, and 0 for a cost basis of 0
PnlPctAtLeast(pos, pct) ==
    IF pos.cost_basis = 0 THEN 0 >= pct
    ELSE pos.unrealized_pnl * 100 >= pct * pos.cost_basis

\* a faulty CheckHardStop: a loss of exactly hard_stop_pct is let through
CheckHardStopAbove(pos, cfg) ==
    IF (IF pos.cost_basis = 0 THEN 0 > cfg.hard_stop_pct
        ELSE -(pos.unrealized_pnl * 100) > cfg.hard_stop_pct * pos.cost_basis)
      THEN <<[close_all |-> TRUE, quantity |-> 0, reason |-> "stop_loss"]>>
      ELSE None

\* check_hard_stop (rules.py:22-31): -pnl_pct >= hard_stop_pct
CheckHardStop(pos, cfg) ==
    IF (IF pos.cost_basis = 0 THEN 0 >= cfg.hard_stop_pct
        ELSE -(pos.unrealized_pnl * 100) >= cfg.hard_stop_pct * pos.cost_basis)
      THEN <<[close_all |-> TRUE, quantity |-> 0, reason |-> "stop_loss"]>>
      ELSE None

\* a faulty CheckTimeStop: is_losing is left out
CheckTimeStopAnyPnl(pos, cfg) ==
    IF DaysToExpiry(pos) <= cfg.time_stop_dte
      THEN <<[close_all |-> TRUE, quantity |-> 0, reason |-> "time_stop"]>>
      ELSE None

\* check_time_stop (rules.py:34-45)
CheckTimeStop(pos, cfg) ==
    IF DaysToExpiry(pos) <= cfg.time_stop_dte /\ pos.unrealized_pnl < 0
      THEN <<[close_all |-> TRUE, quantity |-> 0, reason |-> "time_stop"]>>
      ELSE None

\* a faulty CheckStopRules: the time stop is checked first
CheckStopRulesTimeFirst(pos, cfg) ==
    IF CheckTimeStop(pos, cfg) # None THEN CheckTimeStop(pos, cfg)
    ELSE CheckHardStop(pos, cfg)

\* check_stop_rules (rules.py:48-58): the first stop that triggers
CheckStopRules(pos, cfg) ==
    IF CheckHardStop(pos, cfg) # None THEN CheckHardStop(pos, cfg)
    ELSE CheckTimeStop(pos, cfg)

\* a faulty CheckProfitTargets: target 1 is checked before target 2
CheckProfitTargetsLowFirst(pos, cfg) ==
    IF PnlPctAtLeast(pos, cfg.profit_target_1_pct) /\ pos.quantity > 1
          /\ pos.quantity \div 2 > 0
      THEN <<[close_all |-> FALSE, quantity |-> pos.quantity \div 2,
              reason |-> "profit_target"]>>
    ELSE IF PnlPctAtLeast(pos, cfg.profit_target_2_pct)
      THEN <<[close_all |-> TRUE, quantity |-> 0, reason |-> "profit_target"]>>
    ELSE None

\* check_profit_targets (rules.py:66-92)
CheckProfitTargets(pos, cfg) ==
    IF PnlPctAtLeast(pos, cfg.profit_target_2_pct)
      THEN <<[close_all |-> TRUE, quantity |-> 0, reason |-> "profit_target"]>>
    ELSE IF PnlPctAtLeast(pos, cfg.profit_target_1_pct) /\ pos.quantity > 1
              /\ pos.quantity \div 2 > 0
      THEN <<[close_all |-> FALSE, quantity |-> pos.quantity \div 2,
              reason |-> "profit_target"]>>
    ELSE None

\* Database.partial_close_position (repositories.py:230-243)
PartialClosePosition(rows, position_id, new_quantity, realized_pnl) ==
    [rows EXCEPT ![position_id].quantity = new_quantity,
                 ![position_id].realized_pnl = @ + realized_pnl]

\* _execute_action (position_manager.py:304-359) on the state st of a check:
\* a SELL market order for the whole position or for action.quantity; filled
\* at fill_price the row is closed, with the outcome put on the thesis, or
\* reduced; an order that raises changes nothing
ExecuteAction(st, pos, action, fills, fill_price) ==
    LET qty == IF action.close_all THEN pos.quantity ELSE action.quantity
        order == [position |-> pos.id, side |-> "SELL", quantity |-> qty,
                  reason |-> action.reason, filled |-> fills,
                  fill_price |-> fill_price]
        realized == (fill_price - pos.avg_fill_price) * qty * SharesPerContract
        thesis_id == GetThesisIdForPosition(st.db, pos.id)
    IN IF ~fills
         THEN [st EXCEPT !.orders = Append(st.orders, order)]
       ELSE IF action.close_all
         THEN [st EXCEPT
                 !.orders = Append(st.orders, order),
                 !.db = ClosePosition(st.db, pos.id, action.reason, realized),
                 !.thesis = IF thesis_id # None
                              THEN Append(st.thesis,
                                     [thesis_id |-> thesis_id,
                                      realized_pnl |-> pos.realized_pnl + realized,
                                      close_reason |-> action.reason,
                                      position_id |-> pos.id])
                              ELSE st.thesis]
       ELSE [st EXCEPT
               !.orders = Append(st.orders, order),
               !.db = PartialClosePosition(st.db, pos.id, pos.quantity - qty,
                                           realized)]

\* a faulty AfterStopRules: the profit targets are checked after a stop too
AfterStopRulesGoesOn(action) == "profit_targets"

\* the statement after check_stop_rules and the execution of its action
\* (position_manager.py:294-300)
AfterStopRules(action) == IF action # None THEN "return" ELSE "profit_targets"

\* a faulty InvalidQuote: a mid of zero is taken for a price
InvalidQuoteBelowZero(mid) == mid = NullMid \/ mid = NaNMid \/ mid[2] < 0

\* the guard against bad quotes of _update_and_check (position_manager.py:
\* 272-279): new_price is None or new_price <= 0 or isnan(new_price).  The
\* comparison of a Decimal NaN with 0 raises, which the except clause of line
\* 289 turns into the same return.
InvalidQuote(mid) == mid = NullMid \/ mid = NaNMid \/ mid[2] <= 0

\* _update_and_check (position_manager.py:257-302) of the position pos read
\* by get_open_positions, on the table rows: quote is None if get_option_quote
\* raises and <<mid>> otherwise; fills tells whether a SELL order is filled.
\* rules lists the rule sets evaluated, orders the orders placed.
UpdateAndCheck(rows, pos, quote, cfg, fills) ==
    LET st0 == [db |-> rows, rules |-> <<>>, orders |-> <<>>, thesis |-> <<>>]
    IN IF quote = None \/ InvalidQuote(quote[1])
         THEN st0
         ELSE LET new_price == quote[1][2]
                  unrealized == (new_price - pos.avg_fill_price) * pos.quantity
                                  * SharesPerContract
                  pos1 == [pos EXCEPT !.current_price = new_price,
                                      !.unrealized_pnl = unrealized]
                  st1 == [st0 EXCEPT
                            !.db = UpdatePositionPrice(rows, pos.id, new_price,
                                                       unrealized),
                            !.rules = <<"stop">>]
                  stop == CheckStopRules(pos1, cfg)
                  st2 == IF stop # None
                           THEN ExecuteAction(st1, pos1, stop[1], fills, new_price)
                           ELSE st1
                  profit == CheckProfitTargets(pos1, cfg)
                  st3 == [st2 EXCEPT !.rules = Append(st2.rules, "profit")]
              IN IF AfterStopRules(stop) = "return"
                   THEN st2
                 ELSE IF profit # None
                   THEN ExecuteAction(st3, pos1, profit[1], fills, new_price)
                   ELSE st3

\* _execute_recommendation (position_manager.py:162-255) of recommendation r
\* as one step on the table rows: account_equity is net_liquidation of
\* account_summary, mid what get_option_quote returns, fill what place_order
\* does (None if it raises error, and else a Fill at the limit price).  The
\* result is the last status and reason written and the table.
ExecuteRecommendation(rows, r, account_equity, mid, fill, error) ==
    LET alloc == CheckAllocation(rec_size[r], TotalOptionsExposure(rows),
                                 account_equity)
        price == LimitPrice(mid, EntryMid(r))
        limit_price == price[1]
        quantity == Quantity(rec_size[r], limit_price)
    IN IF ~alloc.approved
         THEN [status |-> "failed", reason |-> alloc.reason, db |-> rows]
       ELSE IF price = None
         THEN [status |-> "failed", reason |-> <<"Zero or negative quote">>,
               db |-> rows]
       ELSE IF fill = None
         THEN [status |-> "failed", reason |-> Str(error), db |-> rows]
       ELSE [status |-> "filled", reason |-> None,
             db |-> InsertPosition(rows,
                      [recommendation_id |-> <<r>>,
                       ib_con_id |-> <<ConIdOf(RecContract(r))>>,
                       contract |-> RecContract(r),
                       quantity |-> quantity,
                       avg_fill_price |-> limit_price,
                       current_price |-> limit_price,
                       cost_basis |-> CostBasis(limit_price, quantity),
                       unrealized_pnl |-> 0])]

\* what a reconciliation comes to: it is made; portfolio() raises, which
\* _sync_positions catches (position_manager.py:84-88); or a database call of
\* the reconciliation raises (position_manager.py:92-152), the first of them
\* here, which nothing in _sync_positions or _tick catches
SyncOutcomes == {"reconciled", "skipped", "raised"}

\* where _tick is after _sync_positions (position_manager.py:69-72): an
\* exception that leaves _sync_positions leaves _tick too
AfterSync(outcome, loc) ==
    IF outcome = "raised" THEN "idle" ELSE Reach(StepAfter("sync"), loc)

\* a faulty OnBrokerError: the exception leaves the loop, and the tick
OnBrokerErrorAborts(step, loc) == "idle"

\* where _tick is after a broker call has raised for one recommendation or
\* one position: the exception is caught where it is raised
\* (position_manager.py:253-255, 289-291, 358-359) and the loop of _tick that
\* made the call goes on (position_manager.py:73-74, 78-80)
OnBrokerError(step, loc) == Reach(step, loc)

\* a caller calls _tick() (scheduler.py:133, 414); nothing
\* keeps it from doing so while another tick is in flight
TickBegin(c) ==
    /\ tick_pc[c] = "idle"
    /\ ticks < MaxTicks
    /\ ticks' = ticks + 1
    /\ tick_pc' = [tick_pc EXCEPT ![c] = Reach(TickOrder[1], NoTickLocals)]
    /\ tick_loc' = [tick_loc EXCEPT ![c] = NoTickLocals]
    /\ tick_trace' = [tick_trace EXCEPT ![c] = <<>>]
    /\ UNCHANGED config
    /\ UNCHANGED <<engineVars, managerVars, syncVars, ruleVars, orderVars>>

\* _tick(), step 1: _sync_positions() (position_manager.py:69), which
\* reconciles or, portfolio() failing, does nothing, or raises
TickSync(c) ==
    /\ tick_pc[c] = "sync"
    /\ \E outcome \in SyncOutcomes :
         /\ IF outcome = "reconciled"
              THEN \E st \in {Reconcile(positions, portfolio)} :
                     /\ positions' = st.db
                     /\ thesis_outcomes' = thesis_outcomes \o st.thesis
              ELSE UNCHANGED <<positions, thesis_outcomes>>
         /\ tick_trace' = [tick_trace EXCEPT
                             ![c] = Append(@, [step |-> "sync"])]
         /\ tick_pc' = [tick_pc EXCEPT ![c] = AfterSync(outcome, tick_loc[c])]
    /\ UNCHANGED <<rec_size, rec_entry, rec_status, rec_reason, approved_at,
                   view_open, orders, tpc, tloc, triggers, auto_done>>
    /\ UNCHANGED <<portfolio, sync_calls, sync_log>>
    /\ UNCHANGED <<config, tick_loc, ticks>>
    /\ UNCHANGED <<engineVars, ruleVars, orderVars>>

\* _tick(), step 2: approved = get_approved_recommendations()
\* (position_manager.py:72)
TickGetApproved(c) ==
    /\ tick_pc[c] = "approved"
    /\ LET loc == [tick_loc[c] EXCEPT !.approved = GetApprovedRecommendations]
       IN /\ tick_loc' = [tick_loc EXCEPT ![c] = loc]
          /\ tick_pc' = [tick_pc EXCEPT ![c] = Reach(StepAfter("approved"), loc)]
    /\ tick_trace' = [tick_trace EXCEPT
                        ![c] = Append(@, [step |-> "approved",
                                          recs |-> GetApprovedRecommendations])]
    /\ UNCHANGED <<config, ticks>>
    /\ UNCHANGED <<engineVars, managerVars, syncVars, ruleVars, orderVars>>

\* _tick(), step 2: _execute_recommendation(rec) for the next rec of approved
\* (position_manager.py:73-74)
TickExecute(c) ==
    /\ tick_pc[c] = "execute"
    /\ tick_loc[c].approved # <<>>
    /\ LET r == Head(tick_loc[c].approved)
           loc == [tick_loc[c] EXCEPT !.approved = Tail(@)]
       IN /\ \E account_equity \in EquityChoices, mid \in MidChoices :
               \E fill \in {<<<<"filled">>, None>>} \cup {<<None, e>> : e \in Exceptions} :
               \E out \in {ExecuteRecommendation(positions, r, account_equity,
                                                  mid, fill[1], fill[2])} :
               \E raised \in {fill[1] = None /\ out.reason = Str(fill[2])} :
                  /\ UpdateRecommendationStatus(r, out.status, out.reason)
                  /\ positions' = out.db
                  /\ tick_pc' = [tick_pc EXCEPT
                                   ![c] = IF raised
                                            THEN OnBrokerError("execute", loc)
                                            ELSE Reach("execute", loc)]
                  /\ tick_trace' = [tick_trace EXCEPT
                                      ![c] = Append(@, [step |-> "execute",
                                                        rec |-> r])]
          /\ tick_loc' = [tick_loc EXCEPT ![c] = loc]
    /\ UNCHANGED <<rec_size, rec_entry, view_open, orders, tpc, tloc, triggers,
                   auto_done>>
    /\ UNCHANGED <<config, ticks>>
    /\ UNCHANGED <<engineVars, syncVars, ruleVars, orderVars>>

\* _tick(), step 3: positions = get_open_positions() (position_manager.py:77)
TickGetOpen(c) ==
    /\ tick_pc[c] = "open"
    /\ LET loc == [tick_loc[c] EXCEPT !.positions = GetOpenPositions(positions)]
       IN /\ tick_loc' = [tick_loc EXCEPT ![c] = loc]
          /\ tick_pc' = [tick_pc EXCEPT ![c] = Reach(StepAfter("open"), loc)]
          /\ tick_trace' = [tick_trace EXCEPT
                              ![c] = Append(@, [step |-> "open",
                                                ids |-> {loc.positions[i].id :
                                                           i \in 1..Len(loc.positions)}])]
    /\ UNCHANGED <<config, ticks>>
    /\ UNCHANGED <<engineVars, managerVars, syncVars, ruleVars, orderVars>>

\* _tick(), step 3: _update_and_check(pos) for the next pos of positions
\* (position_manager.py:78-80)
TickCheck(c) ==
    /\ tick_pc[c] = "check"
    /\ tick_loc[c].positions # <<>>
    /\ LET pos == Head(tick_loc[c].positions)
           loc == [tick_loc[c] EXCEPT !.positions = Tail(@)]
       IN /\ \E quote \in CheckQuoteChoices, fills \in BOOLEAN :
               \E st \in {UpdateAndCheck(positions, pos, quote, config, fills)} :
               \E raised \in {quote = None \/ (st.orders # <<>> /\ ~fills)} :
                  /\ positions' = st.db
                  /\ thesis_outcomes' = thesis_outcomes \o st.thesis
                  /\ tick_pc' = [tick_pc EXCEPT
                                   ![c] = IF raised
                                            THEN OnBrokerError("check", loc)
                                            ELSE Reach("check", loc)]
                  /\ tick_trace' = [tick_trace EXCEPT
                                      ![c] = Append(@, [step |-> "check",
                                                        position |-> pos.id,
                                                        rules |-> st.rules,
                                                        orders |-> st.orders])]
          /\ tick_loc' = [tick_loc EXCEPT ![c] = loc]
    /\ UNCHANGED <<rec_size, rec_entry, rec_status, rec_reason, approved_at,
                   view_open, orders, tpc, tloc, triggers, auto_done>>
    /\ UNCHANGED <<portfolio, sync_calls, sync_log>>
    /\ UNCHANGED <<config, ticks>>
    /\ UNCHANGED <<engineVars, ruleVars, orderVars>>

\* the manager with a configuration, no tick called yet
TickInit ==
    /\ config \in ConfigChoices
    /\ tick_pc = [c \in TickCallers |-> "idle"]
    /\ tick_loc = [c \in TickCallers |-> NoTickLocals]
    /\ tick_trace = [c \in TickCallers |-> <<>>]
    /\ ticks = 0

TickNext ==
    \/ \E c \in TickCallers : TickBegin(c)
    \/ \E c \in TickCallers : TickSync(c)
    \/ \E c \in TickCallers : TickGetApproved(c)
    \/ \E c \in TickCallers : TickExecute(c)
    \/ \E c \in TickCallers : TickGetOpen(c)
    \/ \E c \in TickCallers : TickCheck(c)

\* _tick is not called
TickQuiet ==
    /\ config = [hard_stop_pct |-> 50, profit_target_1_pct |-> 50,
                 profit_target_2_pct |-> 100, time_stop_dte |-> 7]
    /\ tick_pc = [c \in TickCallers |-> "idle"]
    /\ tick_loc = [c \in TickCallers |-> NoTickLocals]
    /\ tick_trace = [c \in TickCallers |-> <<>>]
    /\ ticks = 0

----------------------------------------------------------------------------
\* The rules of rules.py and _update_and_check, each called on its own with
\* arguments drawn from the choices below

\* Bounds of the model
MaxQuantity == 4        \* most contracts of a position

\* avg_fill_price of the positions the rules are called with
RuleAvgPrice == 10

\* current prices: a P&L of -60, -50, -40, 0, +50, +60, +100 and +110 percent
RulePrices == {4, 5, 6, 10, 15, 16, 20, 21}

\* an open options_positions row of id 1 as _execute_recommendation inserts
\* it (position_manager.py:211-228) and update_position_price reprices it
\* (position_manager.py:281-282)
RulePosition(quantity, current_price, contract) ==
    [id |-> 1, recommendation_id |-> <<1>>,
     ib_con_id |-> <<ConIdOf(contract)>>, contract |-> contract,
     quantity |-> quantity, avg_fill_price |-> RuleAvgPrice,
     current_price |-> current_price,
     cost_basis |-> CostBasis(RuleAvgPrice, quantity),
     unrealized_pnl |-> (current_price - RuleAvgPrice) * quantity
                          * SharesPerContract,
     realized_pnl |-> 0, status |-> "open", close_reason |-> None]

RulePositions ==
    {RulePosition(q, p, c) : q \in 1..MaxQuantity, p \in RulePrices,
                             c \in {"A", "B"}}

\* ManagerConfig (types.py:120-129): the defaults, a time stop at and below
\* the days to expiry of contract B, and other thresholds
RuleConfigs ==
    {[hard_stop_pct |-> 50, profit_target_1_pct |-> 50,
      profit_target_2_pct |-> 100, time_stop_dte |-> 7],
     [hard_stop_pct |-> 50, profit_target_1_pct |-> 50,
      profit_target_2_pct |-> 100, time_stop_dte |-> 5],
     [hard_stop_pct |-> 50, profit_target_1_pct |-> 50,
      profit_target_2_pct |-> 100, time_stop_dte |-> 4],
     [hard_stop_pct |-> 40, profit_target_1_pct |-> 60,
      profit_target_2_pct |-> 110, time_stop_dte |-> 7]}

\* what get_option_quote does when a rule position is checked
RuleQuoteChoices ==
    {None} \cup {<<NullMid>>, <<NaNMid>>}
           \cup {<<Num(m)>> : m \in {-1, 0} \cup RulePrices}

\* the calls of the rules (rules.py:22, 34, 48, 66)
RuleCalls ==
    {[fn |-> f, pos |-> pos, config |-> cfg] :
        f \in {"check_hard_stop", "check_time_stop", "check_stop_rules",
               "check_profit_targets"},
        pos \in RulePositions, cfg \in RuleConfigs}

\* the calls of _update_and_check (position_manager.py:257), the position
\* stored at its fill price
UpdateAndCheckCalls ==
    {[fn |-> "_update_and_check", pos |-> pos, config |-> cfg, quote |-> q,
      fills |-> b] :
        pos \in {p \in RulePositions : p.current_price = RuleAvgPrice},
        cfg \in RuleConfigs, q \in RuleQuoteChoices, b \in BOOLEAN}

\* the calls of check_allocation (rules.py:100)
AllocationCalls ==
    {[fn |-> "check_allocation", new_position_usd |-> n,
      current_options_total_usd |-> c, account_equity |-> e] :
        n \in {2000, 5000}, c \in {0, 5000, 18000},
        e \in {-1000, 0, 70000, 200000}}

CallCheckHardStop ==
    /\ rule_out = None
    /\ rule_call.fn = "check_hard_stop"
    /\ rule_out' = <<CheckHardStop(rule_call.pos, rule_call.config)>>
    /\ UNCHANGED rule_call
    /\ UNCHANGED <<engineVars, managerVars, syncVars, tickVars, orderVars>>

CallCheckTimeStop ==
    /\ rule_out = None
    /\ rule_call.fn = "check_time_stop"
    /\ rule_out' = <<CheckTimeStop(rule_call.pos, rule_call.config)>>
    /\ UNCHANGED rule_call
    /\ UNCHANGED <<engineVars, managerVars, syncVars, tickVars, orderVars>>

CallCheckStopRules ==
    /\ rule_out = None
    /\ rule_call.fn = "check_stop_rules"
    /\ rule_out' = <<CheckStopRules(rule_call.pos, rule_call.config)>>
    /\ UNCHANGED rule_call
    /\ UNCHANGED <<engineVars, managerVars, syncVars, tickVars, orderVars>>

CallCheckProfitTargets ==
    /\ rule_out = None
    /\ rule_call.fn = "check_profit_targets"
    /\ rule_out' = <<CheckProfitTargets(rule_call.pos, rule_call.config)>>
    /\ UNCHANGED rule_call
    /\ UNCHANGED <<engineVars, managerVars, syncVars, tickVars, orderVars>>

CallCheckAllocation ==
    /\ rule_out = None
    /\ rule_call.fn = "check_allocation"
    /\ rule_out' = <<CheckAllocation(rule_call.new_position_usd,
                                     rule_call.current_options_total_usd,
                                     rule_call.account_equity)>>
    /\ UNCHANGED rule_call
    /\ UNCHANGED <<engineVars, managerVars, syncVars, tickVars, orderVars>>

\* _update_and_check of the only row of the table
CallUpdateAndCheck ==
    /\ rule_out = None
    /\ rule_call.fn = "_update_and_check"
    /\ rule_out' = <<UpdateAndCheck(<<rule_call.pos>>, rule_call.pos,
                                    rule_call.quote, rule_call.config,
                                    rule_call.fills)>>
    /\ UNCHANGED rule_call
    /\ UNCHANGED <<engineVars, managerVars, syncVars, tickVars, orderVars>>

\* the calls of _execute_recommendation (position_manager.py:162) for
\* recommendation 1, of position_size_usd 100 and without entry prices: the
\* table holds nothing or a position of 1 contract stored at 1, the equity is
\* 1500 or 2000, the mid 0, 1 or 2, and place_order fills or raises
ExecuteCalls ==
    {[fn |-> "_execute_recommendation", rows |-> rows, account_equity |-> e,
      mid |-> m, fill |-> f] :
        rows \in {<<>>,
                  <<[RulePosition(1, 1, "B") EXCEPT
                       !.recommendation_id = None, !.avg_fill_price = 1,
                       !.cost_basis = CostBasis(1, 1), !.unrealized_pnl = 0]>>},
        e \in {1500, 2000}, m \in {0, 1, 2},
        f \in {<<<<"filled">>, None>>} \cup {<<None, x>> : x \in Exceptions}}

\* _execute_recommendation of recommendation 1 on the table of the call
CallExecuteRecommendation ==
    /\ rule_out = None
    /\ rule_call.fn = "_execute_recommendation"
    /\ rule_out' = <<ExecuteRecommendation(rule_call.rows, 1,
                                           rule_call.account_equity,
                                           rule_call.mid, rule_call.fill[1],
                                           rule_call.fill[2])>>
    /\ UNCHANGED rule_call
    /\ UNCHANGED <<engineVars, managerVars, syncVars, tickVars, orderVars>>

RulesInit ==
    /\ rule_call \in RuleCalls \cup UpdateAndCheckCalls \cup AllocationCalls
                      \cup ExecuteCalls
    /\ rule_out = None

RulesNext ==
    \/ CallCheckHardStop
    \/ CallCheckTimeStop
    \/ CallCheckStopRules
    \/ CallCheckProfitTargets
    \/ CallCheckAllocation
    \/ CallUpdateAndCheck
    \/ CallExecuteRecommendation

\* no rule is called on its own
RulesQuiet ==
    /\ rule_call = [fn |-> "none"]
    /\ rule_out = None

----------------------------------------------------------------------------
\* IBClient.place_order (client.py:340-469): the order is placed and its
\* status is read every 2 seconds

\* _ORDER_FILL_TIMEOUT_SECS
OrderFillTimeoutSecs == 120

\* await asyncio.sleep(2); elapsed += 2
PollSecs == 2

\* how long a Cancelled status with the warning 10349 is waited out
TifWaitSecs == 10

\* trade.orderStatus.status as the broker reports it
OrderStatuses ==
    {"PendingSubmit", "PreSubmitted", "Submitted", "Filled", "Cancelled",
     "Inactive"}

\* The order at the broker.  live: it is working, unfilled and not cancelled.
\* tif: the broker has logged error 10349 (it changed the time in force),
\* with which it reports Cancelled for an order that is still live
\* (client.py:429-440).  cancel_requested: cancelOrder was called for it.
TradeStates ==
    {[status |-> st, tif |-> tif, live |-> live, cancel_requested |-> FALSE] :
        st \in OrderStatuses, tif \in BOOLEAN, live \in BOOLEAN}
      \ {tr \in [status : OrderStatuses, tif : BOOLEAN, live : BOOLEAN,
                  cancel_requested : {FALSE}] :
            \/ tr.live /\ tr.status \in {"Filled", "Inactive"}
            \/ tr.live /\ tr.status = "Cancelled" /\ ~tr.tif
            \/ ~tr.live /\ tr.status \in {"PendingSubmit", "PreSubmitted",
                                           "Submitted"}}

\* the order before it is placed, and as placeOrder leaves it (client.py:388)
NoTrade == [status |-> "none", tif |-> FALSE, live |-> FALSE,
            cancel_requested |-> FALSE]
NewTrade == [status |-> "PendingSubmit", tif |-> FALSE, live |-> TRUE,
             cancel_requested |-> FALSE]

\* what the broker may have made of the order after another two seconds: an
\* order that is no longer live stays as it is, and a logged warning stays
BrokerNext(tr) ==
    IF ~tr.live THEN {tr}
    ELSE {n \in TradeStates : tr.tif => n.tif}

\* a faulty OnTimeout: the order is left at the broker
OnTimeoutAbandons(tr) == tr

\* self._ib.cancelOrder(trade.order) (client.py:446-447)
OnTimeout(tr) == [tr EXCEPT !.live = FALSE, !.cancel_requested = TRUE]

\* the body of the wait loop for a status read (client.py:398-450): what
\* place_order does next
AfterStatus(tr, elapsed) ==
    IF tr.status = "Filled" THEN "fill"
    ELSE IF tr.status \in {"PreSubmitted", "Submitted"} THEN "pending"
    ELSE IF tr.status = "Cancelled"
      THEN IF tr.tif /\ elapsed < TifWaitSecs THEN "continue"
           ELSE "RuntimeError"
    ELSE IF elapsed >= OrderFillTimeoutSecs THEN "TimeoutError"
    ELSE "continue"

\* place_order up to placeOrder (client.py:358-388): the contract is
\* qualified, or ValueError is raised and no order is placed
PlaceOrder ==
    /\ po_pc = "not called"
    /\ \/ /\ po_pc' = "waiting"
          /\ trade' = NewTrade
          /\ po_out' = None
       \/ /\ po_pc' = "raised"
          /\ po_out' = <<[type |-> "ValueError", pending |-> FALSE,
                           status |-> "none"]>>
          /\ UNCHANGED trade
    /\ po_elapsed' = 0
    /\ UNCHANGED <<engineVars, managerVars, syncVars, tickVars, ruleVars>>

\* one turn of the wait loop (client.py:394-450)
PollOrder ==
    /\ po_pc = "waiting"
    /\ po_elapsed' = po_elapsed + PollSecs
    /\ \E tr \in BrokerNext(trade) :
         \E next \in {AfterStatus(tr, po_elapsed + PollSecs)} :
            /\ trade' = IF next = "TimeoutError" THEN OnTimeout(tr) ELSE tr
            /\ po_pc' = CASE next = "continue" -> "waiting"
                          [] next \in {"fill", "pending"} -> "returned"
                          [] OTHER -> "raised"
            /\ po_out' = CASE next = "continue" -> None
                           [] next = "fill" ->
                                <<[type |-> "Fill", pending |-> FALSE,
                                   status |-> tr.status]>>
                           [] next = "pending" ->
                                <<[type |-> "Fill", pending |-> TRUE,
                                   status |-> tr.status]>>
                           [] OTHER -> <<[type |-> next, pending |-> FALSE,
                                          status |-> tr.status]>>
    /\ UNCHANGED <<engineVars, managerVars, syncVars, tickVars, ruleVars>>

\* the broker goes on with an order place_order has returned or raised for
BrokerGoesOn ==
    /\ po_pc \in {"returned", "raised"}
    /\ trade.live
    /\ \E tr \in BrokerNext(trade) : tr # trade /\ trade' = tr
    /\ UNCHANGED <<po_pc, po_elapsed, po_out>>
    /\ UNCHANGED <<engineVars, managerVars, syncVars, tickVars, ruleVars>>

OrderInit ==
    /\ po_pc = "not called"
    /\ po_elapsed = 0
    /\ po_out = None
    /\ trade = NoTrade

OrderNext ==
    \/ PlaceOrder
    \/ PollOrder
    \/ BrokerGoesOn

\* place_order is not called
OrderQuiet == OrderInit

----------------------------------------------------------------------------
\* Specifications

\* no recommendation is stored and no manager task runs
ManagerIdle ==
    /\ rec_size = [r \in RecIds |-> 100]
    /\ rec_entry = [r \in RecIds |-> <<0, 0>>]
    /\ rec_status = [r \in RecIds |-> "pending_review"]
    /\ rec_reason = [r \in RecIds |-> None]
    /\ approved_at = <<>>
    /\ view_open = [r \in RecIds |-> FALSE]
    /\ orders = <<>>
    /\ tpc = [t \in Tasks |-> "idle"]
    /\ tloc = [t \in Tasks |-> NoLocals]
    /\ triggers = 0
    /\ auto_done = {}

\* the engine alone: the manager is idle with no position stored
ManagerQuiet == ManagerIdle /\ positions = <<>>

\* the manager alone: run() is not called; the engine is as constructed
EngineQuiet ==
    /\ workflow = <<>>
    /\ notifier = TRUE
    /\ epc = "not called"
    /\ run_id = None
    /\ context = None
    /\ stepIdx = 0
    /\ attempt = 0
    /\ cur = None
    /\ result = None
    /\ all_results = <<>>
    /\ retval = <<"not returned">>
    /\ exc = None
    /\ workflow_runs = <<>>
    /\ step_logs = <<>>
    /\ createCalls = 0
    /\ completeCalls = <<>>
    /\ agentCalls = <<>>
    /\ escalations = <<>>

EngineSpecInit ==
    /\ EngineInit /\ ManagerQuiet /\ SyncQuiet /\ TickQuiet /\ RulesQuiet
    /\ OrderQuiet

ManagerSpecInit ==
    /\ ManagerInit /\ EngineQuiet /\ SyncQuiet /\ TickQuiet /\ RulesQuiet
    /\ OrderQuiet

SyncSpecInit ==
    /\ SyncInit /\ positions \in Databases /\ ManagerIdle /\ EngineQuiet
    /\ TickQuiet /\ RulesQuiet /\ OrderQuiet

\* whole ticks: the first recommendation is approved and the others, alike,
\* wait for review; the database holds no position yet and the broker
\* portfolio has at most one, a long option
TickSpecInit ==
    /\ TickInit
    /\ \E c \in RecChoices :
         /\ rec_size = [r \in RecIds |-> c.size]
         /\ rec_entry = [r \in RecIds |-> c.entry]
    /\ rec_status = [r \in RecIds |-> IF r = 1 THEN "approved" ELSE "pending_review"]
    /\ rec_reason = [r \in RecIds |-> None]
    /\ approved_at = <<1>>
    /\ view_open = [r \in RecIds |-> FALSE]
    /\ positions = <<>>
    /\ orders = <<>>
    /\ tpc = [t \in Tasks |-> "idle"]
    /\ tloc = [t \in Tasks |-> NoLocals]
    /\ triggers = 0
    /\ auto_done = {}
    /\ portfolio \in {p \in Portfolios : Len(p) <= 1 /\ LongOptions(p) = p}
    /\ sync_calls = 0
    /\ sync_log = <<>>
    /\ thesis_outcomes = <<>>
    /\ EngineQuiet
    /\ RulesQuiet
    /\ OrderQuiet

RulesSpecInit ==
    /\ RulesInit /\ EngineQuiet /\ ManagerQuiet /\ SyncQuiet /\ TickQuiet
    /\ OrderQuiet

OrderSpecInit ==
    /\ OrderInit /\ EngineQuiet /\ ManagerQuiet /\ SyncQuiet /\ TickQuiet
    /\ RulesQuiet

EngineSpec == EngineSpecInit /\ [][EngineNext]_vars

ManagerSpec == ManagerSpecInit /\ [][ManagerNext]_vars

SyncSpec == SyncSpecInit /\ [][SyncNext]_vars

TickSpec == TickSpecInit /\ [][TickNext]_vars

RulesSpec == RulesSpecInit /\ [][RulesNext]_vars

OrderSpec == OrderSpecInit /\ [][OrderNext]_vars

----------------------------------------------------------------------------
\* The life of one position: the caller of _tick ticks again and again, one
\* tick after the other, and each tick reads the open position and checks it
\* (position_manager.py:77-80).  The broker holds what the database holds, so
\* that the reconciliation finds nothing to do.

\* Bounds of the model
MaxChecks == 3          \* ticks in the life of the position

\* what get_option_quote does in the ticks of the life of the position
LifeQuoteChoices == {None} \cup {<<Num(m)>> : m \in RulePrices}

\* _tick(), step 3 (position_manager.py:77-80): get_open_positions and
\* _update_and_check of the position; orders lists the SELL orders placed
LifeCheck ==
    /\ ticks < MaxChecks
    /\ GetOpenPositions(positions) # <<>>
    /\ \E quote \in LifeQuoteChoices, fills \in BOOLEAN :
         \E st \in {UpdateAndCheck(positions, Head(GetOpenPositions(positions)),
                                   quote, config, fills)} :
            /\ positions' = st.db
            /\ thesis_outcomes' = thesis_outcomes \o st.thesis
            /\ orders' = orders \o st.orders
    /\ ticks' = ticks + 1
    /\ UNCHANGED <<rec_size, rec_entry, rec_status, rec_reason, approved_at,
                   view_open, tpc, tloc, triggers, auto_done>>
    /\ UNCHANGED <<portfolio, sync_calls, sync_log>>
    /\ UNCHANGED <<config, tick_pc, tick_loc, tick_trace>>
    /\ UNCHANGED <<engineVars, ruleVars, orderVars>>

\* the position as _execute_recommendation has stored it at its fill
LifeInit ==
    /\ positions \in {<<RulePosition(q, RuleAvgPrice, c)>> :
                         q \in 1..MaxQuantity, c \in {"A", "B"}}
    /\ config \in RuleConfigs
    /\ tick_pc = [c \in TickCallers |-> "idle"]
    /\ tick_loc = [c \in TickCallers |-> NoTickLocals]
    /\ tick_trace = [c \in TickCallers |-> <<>>]
    /\ ticks = 0

LifeNext == LifeCheck

LifeSpecInit ==
    /\ LifeInit /\ ManagerIdle /\ SyncQuiet /\ EngineQuiet /\ RulesQuiet
    /\ OrderQuiet

LifeSpec == LifeSpecInit /\ [][LifeNext]_vars

----------------------------------------------------------------------------
\* A BUY order that place_order returned as a pending fill (client.py:
\* 407-427): _execute_recommendation has stored its position row and written
\* status filled (position_manager.py:223-240) while the order still works at
\* the broker; the reconciliations that follow read a portfolio that holds the
\* position only once the order is filled.

\* the contract id of the contract the recommendations name
RecConId == ConIdOf(RecContract(1))

\* the BUY order of recommendation 1 has not been filled: the portfolio does
\* not hold its contract
OrderPending == RecConId \notin IbConIds(LongOptions(portfolio))

\* the row _execute_recommendation stored for recommendation 1
RecRow == CHOOSE i \in 1..Len(positions) : positions[i].recommendation_id = <<1>>

\* the broker fills the pending order: from now on portfolio() holds the
\* position, at the limit price of the order
OrderFills ==
    /\ OrderPending
    /\ portfolio' = Append(portfolio,
                           [con_id |-> RecConId, contract |-> RecContract(1),
                            sec_type |-> "OPT",
                            position |-> orders[1].quantity,
                            avg_cost |-> orders[1].limit_price,
                            market_price |-> orders[1].limit_price,
                            unrealized_pnl |-> 0])
    /\ UNCHANGED <<sync_calls, sync_log, thesis_outcomes>>
    /\ UNCHANGED <<engineVars, managerVars, tickVars, ruleVars, orderVars>>

\* recommendation 1 has been executed with an order returned as pending: the
\* table holds its row, after none or one row of another contract, and the
\* portfolio holds no position in the contract of the order
PendingInit ==
    /\ \E c \in RecChoices :
         /\ rec_size = [r \in RecIds |-> c.size]
         /\ rec_entry = [r \in RecIds |-> c.entry]
    /\ rec_status = [r \in RecIds |-> IF r = 1 THEN "filled" ELSE "pending_review"]
    /\ rec_reason = [r \in RecIds |-> None]
    /\ approved_at = <<1>>
    /\ view_open = [r \in RecIds |-> FALSE]
    /\ \E mid \in {1, 2} :
       \E rows \in {<<>>, <<StoredRow(1, [recommendation_id |-> None,
                                           ib_con_id |-> None, contract |-> "B",
                                           status |-> "open"])>>} :
       \E out \in {ExecuteRecommendation(rows, 1, 2000, mid, <<"filled">>, None)} :
          /\ out.status = "filled"
          /\ positions = out.db
          /\ orders = <<[rec |-> 1, side |-> "BUY",
                         quantity |-> out.db[Len(out.db)].quantity,
                         limit_price |-> out.db[Len(out.db)].avg_fill_price]>>
    /\ tpc = [t \in Tasks |-> "idle"]
    /\ tloc = [t \in Tasks |-> NoLocals]
    /\ triggers = 0
    /\ auto_done = {}
    /\ portfolio \in {p \in Portfolios : RecConId \notin IbConIds(p)
                                          /\ \A i \in 1..Len(p) : p[i].contract # "A"}
    /\ sync_calls = 0
    /\ sync_log = <<>>
    /\ thesis_outcomes = <<>>

PendingNext ==
    \/ SyncPositions
    \/ SyncSkipped
    \/ OrderFills

PendingSpecInit ==
    /\ PendingInit /\ EngineQuiet /\ TickQuiet /\ RulesQuiet /\ OrderQuiet

PendingSpec == PendingSpecInit /\ [][PendingNext]_vars

----------------------------------------------------------------------------
\* Properties of WorkflowEngine.run (checked under EngineSpec)

\* run() has returned or an exception has left it
Finished == epc \in {"returned", "raised"}

\* the rows of workflow_step_logs / the agent.execute calls of step s, in order
LogsOf(s) == SelectSeq(step_logs, LAMBDA row : row.step_id = s)
CallsOf(s) == SelectSeq(agentCalls, LAMBDA c : c.step_id = s)

\* step s has been given up: its StepResult did not pass the gate
GaveUpOn(s) == \E k \in 1..Len(all_results) :
                  all_results[k].step_id = s /\ ~StepPassed(all_results[k])

\* C1: every invocation of run makes exactly one create_workflow_run call and
\* exactly one complete_workflow_run call, whatever the agents, validators and
\* notifier do (also when an agent is missing or a collaborator raises).
C1_OneCreateOneComplete ==
    Finished => createCalls = 1 /\ Len(completeCalls) = 1

\* C2: an unknown agent name is detected before create_workflow_run is called,
\* so the ValueError never leaves a workflow run in status running.
C2_UnknownAgentBeforeCreate ==
    (epc = "raised" /\ exc = <<"ValueError: agent not registered">>) =>
        /\ createCalls = 0
        /\ \A i \in 1..Len(workflow_runs) : workflow_runs[i].status # "running"

\* C3: per step the agent is called at most max_retries+1 times, the attempts
\* stop at the first one that passes, one log row is written per attempt made
\* (passed, failed validation or raised), the rows carry attempt 0,1,2,... in
\* order, and passed_gate is true on at most the last row of the step.
C3_AttemptsAndLogs ==
    /\ \A i \in 1..Len(step_logs) - 1 : step_logs[i].step_id <= step_logs[i + 1].step_id
    /\ \A s \in 1..Len(workflow) :
         LET logs == LogsOf(s)
             calls == CallsOf(s)
             pending == IF epc = "log_step" /\ stepIdx = s THEN 1 ELSE 0
         IN /\ Len(calls) <= workflow[s].max_retries + 1
            /\ Len(logs) + pending = Len(calls)
            /\ \A i \in 1..Len(calls) - 1 : calls[i].outcome # "valid"
            /\ \A i \in 1..Len(logs) :
                 /\ logs[i].attempt = i - 1
                 /\ logs[i].passed_gate => i = Len(logs)
                 /\ logs[i].output = JsonOrNull(DumpOrNone(OutputOf(calls[i].outcome,
                                                                   calls[i].value)))

\* C3 witness: a step was retried after an attempt that raised, and the retry
\* passed, with both attempts logged.
C3_Witness ==
    \E s \in 1..Len(workflow) :
        /\ Len(LogsOf(s)) = 2
        /\ LogsOf(s)[1].output = None
        /\ CallsOf(s)[1].outcome = "raises"
        /\ LogsOf(s)[2].passed_gate

\* C4: an attempt passes iff agent.execute did not raise and the validator
\* returned true; the next step's context is exactly the passing output, and a
\* retry is given the context the failed attempt had.
C4_PassIffAndContext ==
    /\ \A i \in 1..Len(step_logs) :
         /\ step_logs[i].passed_gate <=> agentCalls[i].outcome = "valid"
         /\ step_logs[i].input = JsonOrNull(ModelDump(agentCalls[i].input))
    /\ Len(agentCalls) > 0 => agentCalls[1].input = initial_input
    /\ \A i \in 1..Len(agentCalls) - 1 :
         IF agentCalls[i].outcome = "valid"
           THEN /\ agentCalls[i + 1].step_id = agentCalls[i].step_id + 1
                /\ agentCalls[i + 1].input = agentCalls[i].value
           ELSE /\ agentCalls[i + 1].step_id = agentCalls[i].step_id
                /\ agentCalls[i + 1].input = agentCalls[i].input
    /\ (epc = "execute" /\ Len(agentCalls) > 0) =>
         LET last == agentCalls[Len(agentCalls)]
         IN context = IF last.outcome = "valid" THEN last.value ELSE last.input

\* C4 witness: a step failed an attempt, passed on the retry, and the next
\* step has been called.
C4_Witness ==
    /\ Len(agentCalls) = 3
    /\ agentCalls[1].outcome = "invalid"
    /\ agentCalls[2].outcome = "valid"
    /\ agentCalls[3].step_id = 2
    /\ agentCalls[3].input = agentCalls[2].value

\* C5: when a step with on_fail abort exhausts its retries, the run is marked
\* failed, run returns None, no escalation is sent and no later step's agent
\* is called.
C5_AbortFailsQuietly ==
    \A s \in 1..Len(workflow) :
        (GaveUpOn(s) /\ workflow[s].on_fail = "abort") =>
            /\ epc \in {"complete_failed", "returned"}
            /\ escalations = <<>>
            /\ \A i \in 1..Len(agentCalls) : agentCalls[i].step_id <= s
            /\ Len(CallsOf(s)) = workflow[s].max_retries + 1
            /\ epc = "returned" =>
                 /\ retval = None
                 /\ workflow_runs[run_id[1]].status = "failed"
                 /\ completeCalls = <<[run_id |-> run_id, status |-> "failed"]>>

\* C5 witness: the first step passed, the second (abort) used all its attempts
\* and run has returned.
C5_Witness ==
    /\ epc = "returned"
    /\ Len(workflow) = 2
    /\ workflow[2].on_fail = "abort"
    /\ workflow[2].max_retries = 1
    /\ notifier
    /\ GaveUpOn(2)

\* C6: when a step with on_fail escalate exhausts its retries, the run makes
\* one create_workflow_run, one complete_workflow_run(status=failed), one
\* escalate call carrying the last context and the last error, logs exactly the
\* attempts made, and returns None.  Stated for an engine that has a notifier.
C6_EscalateRun ==
    \A s \in 1..Len(workflow) :
        (notifier /\ Finished /\ GaveUpOn(s) /\ workflow[s].on_fail = "escalate") =>
            /\ createCalls = 1
            /\ completeCalls = <<[run_id |-> run_id, status |-> "failed"]>>
            /\ escalations = <<[step_id |-> s, context |-> ModelDump(context),
                                error |-> result.error]>>
            /\ Len(LogsOf(s)) = workflow[s].max_retries + 1
            /\ \A t \in 1..Len(workflow) : t > s => Len(LogsOf(t)) = 0
            /\ epc = "returned" /\ retval = None

\* C7: when every step passes, the run is marked completed with the final
\* context persisted, and run returns final_output = the last step's output,
\* step_outputs = every step id mapped to its passing output, and the run_id
\* create_workflow_run returned.
C7_AllPassResult ==
    (epc = "returned" /\ \A s \in 1..Len(workflow) : ~GaveUpOn(s)) =>
        /\ retval # None
        /\ workflow_runs[Len(workflow_runs)] =
              [status |-> "completed", result |-> JsonOrNull(ModelDump(context))]
        /\ retval.run_id = <<Len(workflow_runs)>>
        /\ retval.final_output = context
        /\ Len(workflow) > 0 =>
              /\ agentCalls[Len(agentCalls)].step_id = Len(workflow)
              /\ retval.final_output = agentCalls[Len(agentCalls)].value
        /\ DOMAIN retval.step_outputs = 1..Len(workflow)
        /\ \A s \in 1..Len(workflow) :
              LET calls == CallsOf(s)
              IN /\ calls[Len(calls)].outcome = "valid"
                 /\ retval.step_outputs[s] = calls[Len(calls)].value

\* C7 witness: a two-step workflow completed, the first step on its retry, in
\* a database that already held a run.
C7_Witness ==
    /\ epc = "returned"
    /\ retval # None
    /\ Len(workflow) = 2
    /\ Len(agentCalls) = 3
    /\ Len(workflow_runs) = 2
    /\ agentCalls[1].outcome = "raises"

----------------------------------------------------------------------------
\* Properties of the recommendation lifecycle

\* position of a status in pending -> approved -> executing -> final
StatusRank(status) ==
    CASE status = "pending_review" -> 0
      [] status = "approved" -> 1
      [] status = "executing" -> 2
      [] OTHER -> 3

TerminalStatuses == {"filled", "failed", "rejected"}

AllowedTransitions ==
    {<<"pending_review", "approved">>, <<"pending_review", "rejected">>,
     <<"approved", "executing">>, <<"executing", "filled">>,
     <<"executing", "failed">>}

\* C8: under any sequence of ticks, approvals, rejections and collaborator
\* failures the status of a recommendation never moves backward, and a
\* recommendation that is filled, failed or rejected keeps that status.
C8_StatusNeverBackward ==
    [][\A r \in RecIds :
         /\ StatusRank(rec_status'[r]) >= StatusRank(rec_status[r])
         /\ rec_status[r] \in TerminalStatuses => rec_status'[r] = rec_status[r]]_vars

\* C9: the status changes only along pending -> approved, pending -> rejected,
\* approved -> executing, executing -> filled and executing -> failed;
\* executing is entered by the manager only, from approved, right before the
\* order; no order is placed for a rejected or pending recommendation.
C9_OnlyListedTransitions ==
    [][/\ \A r \in RecIds :
            rec_status'[r] # rec_status[r]
              => <<rec_status[r], rec_status'[r]>> \in AllowedTransitions
       /\ \A i \in (Len(orders) + 1)..Len(orders') :
            rec_status[orders'[i].rec] \notin {"rejected", "pending_review"}]_vars

\* C10: when the allocation check of an execution, made with the equity and
\* the exposure fetched in that execution, rejects, the execution has placed no
\* order and inserted no position, and its next and last step stores status
\* failed with the reason of the check, placing no order and inserting no
\* position.
C10_AllocationRejected ==
    [][\A t \in Tasks :
         /\ (tpc[t] = "check_allocation" /\ tloc'[t].alloc = "rejected")
              => \E eq \in EquityChoices :
                   LET check == CheckAllocation(rec_size[tloc[t].rec],
                                                TotalOptionsExposure(positions), eq)
                   IN ~check.approved /\ tloc'[t].reason = check.reason
         /\ tloc[t].alloc = "rejected"
              => /\ tpc[t] = "alloc_failed"
                 /\ ~tloc[t].ordered /\ ~tloc[t].inserted
                 /\ tpc'[t] # tpc[t]
                      => /\ rec_status'[tloc[t].rec] = "failed"
                         /\ rec_reason'[tloc[t].rec] = tloc[t].reason
                         /\ orders' = orders /\ positions' = positions
                         /\ tloc'[t].alloc = "unchecked"]_vars

\* a recommendation was refused by the allocation check for the exposure
\* that another execution of it had added
C10_Witness ==
    \E r \in RecIds :
      /\ rec_status[r] = "failed"
      /\ Len(rec_reason[r]) = 4
      /\ rec_reason[r][1] = "Rejected: would be"
      /\ rec_reason[r][3] > 0
      /\ Len(orders) = 1 /\ Len(positions) = 1
      /\ \A t \in Tasks : tpc[t] = "idle"

\* C11: a recommendation becomes filled only if its allocation check passed
\* and the broker reported its BUY order filled; an order that is accepted and
\* still pending, rejected or timed out never yields status filled.
C11_FilledOnlyWhenOrderFilled ==
    [][\A r \in RecIds :
         (rec_status'[r] = "filled" /\ rec_status[r] # "filled")
           => \E t \in Tasks :
                /\ tpc[t] = "mark_filled" /\ tloc[t].rec = r
                /\ tloc[t].alloc = "approved"
                /\ tloc[t].ordered
                /\ ~tloc[t].fill.pending]_vars

\* a reason that is a non-empty text
NonEmptyReason(reason) == reason # None /\ reason # <<"">>

\* C12: an exception raised while a recommendation is executed leaves it
\* failed with the error text as its reason, and every write of status failed
\* stores a non-empty reason.
C12_FailedWithReason ==
    [][/\ \A t \in Tasks :
            (tpc[t] = "except" /\ tpc'[t] # "except")
              => /\ rec_status'[tloc[t].rec] = "failed"
                 /\ rec_reason'[tloc[t].rec] = Str(tloc[t].error)
       /\ \A r \in RecIds :
            (rec_status'[r] = "failed"
               /\ <<rec_status[r], rec_reason[r]>> # <<rec_status'[r], rec_reason'[r]>>)
              => NonEmptyReason(rec_reason'[r])]_vars

----------------------------------------------------------------------------
\* Properties of the reconciliation

\* the rows of a table that are open
OpenRows(rows) == {i \in 1..Len(rows) : rows[i].status = "open"}

\* the k-th entry of a log of items, matches or rows, as a set of indices
Indices(seq) == 1..Len(seq)

\* C16: a reconciliation that follows a reconciliation, the broker portfolio
\* unchanged, inserts no position, closes no position and backfills no
\* reference id.
C16_SyncIdempotent ==
    \A k \in 2..Len(sync_log) :
        /\ sync_log[k].inserted = <<>>
        /\ sync_log[k].closed = <<>>
        /\ sync_log[k].backfilled = <<>>

\* C17: a broker position is matched by the stored reference id first, by
\* contract among the open rows only if no row holds its id, and then the
\* row's id is set to the broker's; a matched row gets the broker's price and
\* unrealized P&L and is neither inserted again nor closed.
C17_MatchByIdThenContract ==
    \A k \in Indices(sync_log) :
      LET e == sync_log[k]
          held(con_id) == {i \in OpenRows(e.before) : e.before[i].ib_con_id = <<con_id>>}
      IN \A j \in Indices(e.matched) :
           LET m == e.matched[j]
           IN /\ m.by = "con_id" => m.row \in held(m.item.con_id)
              /\ held(m.item.con_id) # {} => m.by = "con_id"
              /\ m.by = "contract" => /\ m.stored.contract = m.item.contract
                                      /\ m.stored.status = "open"
                                      /\ m.stored.ib_con_id = <<m.item.con_id>>
              /\ m.stored.current_price = m.item.market_price
              /\ m.stored.unrealized_pnl = m.item.unrealized_pnl
              /\ \A i \in Indices(e.closed) : e.closed[i] # m.row
              /\ e.after[m.row].status = "open"
              /\ \A i \in Indices(e.inserted) : e.inserted[i].n # m.n
              /\ Len(e.after) = Len(e.before) + Len(e.inserted)

\* a row without reference id was matched by contract and given the id, and a
\* row was matched by its id, in one reconciliation
C17_Witness ==
    \E k \in Indices(sync_log) :
      /\ \E j \in Indices(sync_log[k].matched) :
           /\ sync_log[k].matched[j].by = "contract"
           /\ sync_log[k].matched[j].row \in Indices(sync_log[k].before)
           /\ sync_log[k].before[sync_log[k].matched[j].row].ib_con_id = None
           /\ positions[sync_log[k].matched[j].row].ib_con_id
                = <<sync_log[k].matched[j].item.con_id>>
      /\ \E j \in Indices(sync_log[k].matched) : sync_log[k].matched[j].by = "con_id"

\* C18: only the long option positions of the portfolio are reconciled, and
\* each of them that matches no row that was open in the database, by
\* reference id or by contract, is inserted exactly once, as an open row
\* without recommendation and with the broker's reference id.
C18_UnknownLongOptionsInserted ==
    \A k \in Indices(sync_log) :
      LET e == sync_log[k]
          long(item) == item.sec_type = "OPT" /\ item.position > 0
          known(item) == \E r \in OpenRows(e.before) :
                            \/ e.before[r].ib_con_id = <<item.con_id>>
                            \/ e.before[r].contract = item.contract
          insertsOf(n) == {i \in Indices(e.inserted) : e.inserted[i].n = n}
      IN /\ \A j \in Indices(e.matched) : long(e.matched[j].item)
         /\ \A i \in Indices(e.inserted) :
              /\ long(e.inserted[i].item)
              /\ e.inserted[i].row \notin Indices(e.before)
              /\ e.inserted[i].stored.recommendation_id = None
              /\ e.inserted[i].stored.ib_con_id = <<e.inserted[i].item.con_id>>
              /\ e.inserted[i].stored.status = "open"
         /\ Len(e.after) = Len(e.before) + Len(e.inserted)
         /\ \A n \in Indices(e.options) :
              ~known(e.options[n]) => Cardinality(insertsOf(n)) = 1

\* C19: after a reconciliation every row that was open with a reference id
\* that no long option of the broker snapshot has is closed with reason
\* external and realized P&L zero, and if the row has a recommendation its
\* thesis gets that outcome; a row without reference id, or with an id of the
\* snapshot, stays open.
C19_AbsentRowsClosed ==
    \A k \in Indices(sync_log) :
      LET e == sync_log[k]
          snapshot == {e.options[n].con_id : n \in Indices(e.options)}
      IN \A r \in OpenRows(e.before) :
           LET row == e.before[r]
               absent == row.ib_con_id # None /\ row.ib_con_id[1] \notin snapshot
           IN /\ absent =>
                   /\ e.after[r].status = "closed"
                   /\ e.after[r].close_reason = <<"external">>
                   /\ e.after[r].realized_pnl = 0
                   /\ row.recommendation_id # None =>
                        \E i \in Indices(e.thesis) :
                            /\ e.thesis[i].position_id = r
                            /\ e.thesis[i].thesis_id = row.recommendation_id
                            /\ e.thesis[i].close_reason = "external"
                            /\ e.thesis[i].realized_pnl = 0
              /\ ~absent => e.after[r].status = "open"

-----------------------------------------------------------------------------
\* Properties of PositionManager._tick (checked under TickSpec)

\* the trace of a caller's tick has an event of the step
Did(c, step) == \E i \in Indices(tick_trace[c]) : tick_trace[c][i].step = step

\* C13: at most one tick is in flight at a time: no caller starts _tick
\* while the tick of another caller has not completed.
C13_OneTickInFlight ==
    Cardinality({c \in TickCallers : tick_pc[c] # "idle"}) <= 1

\* C14: in every tick the reconciliation is over before a recommendation is
\* executed, every execution is over before the open positions are read, and
\* the positions that are checked are those read after the executions.
C14_TickStepsInOrder ==
    \A c \in TickCallers :
      LET tr == tick_trace[c]
      IN \A j \in Indices(tr) :
           /\ tr[j].step = "sync" =>
                \A i \in 1..(j - 1) : tr[i].step \notin {"execute", "open", "check"}
           /\ tr[j].step = "execute" =>
                /\ \E i \in 1..(j - 1) : tr[i].step = "sync"
                /\ \A i \in 1..(j - 1) : tr[i].step \notin {"open", "check"}
           /\ tr[j].step = "check" =>
                \E i \in 1..(j - 1) : /\ tr[i].step = "open"
                                      /\ tr[j].position \in tr[i].ids

\* a tick reconciled, executed a recommendation, read the open positions and
\* checked one of them
C14_Witness ==
    \E c \in TickCallers :
      Did(c, "sync") /\ Did(c, "execute") /\ Did(c, "open") /\ Did(c, "check")

\* C15: the check of a position evaluates the stop rules first and the profit
\* targets only if no stop fired; it places at most one SELL order, and a
\* tick checks a position once, so that a tick places at most one SELL order
\* per position, also when the order of a stop fails.
C15_StopBeforeProfit ==
    \A c \in TickCallers :
      LET tr == tick_trace[c]
      IN \A k \in Indices(tr) :
           tr[k].step = "check" =>
             /\ tr[k].rules \in {<<>>, <<"stop">>, <<"stop", "profit">>}
             /\ Len(tr[k].orders) <= 1
             /\ \A i \in Indices(tr[k].orders) :
                  /\ tr[k].orders[i].side = "SELL"
                  /\ tr[k].orders[i].position = tr[k].position
                  /\ tr[k].orders[i].reason \in {"stop_loss", "time_stop"}
                       => tr[k].rules = <<"stop">>
                  /\ tr[k].orders[i].reason = "profit_target"
                       => tr[k].rules = <<"stop", "profit">>
             /\ \A j \in 1..(k - 1) :
                  tr[j].step = "check" => tr[j].position # tr[k].position

\* with thresholds of zero a position without gain or loss, which meets the
\* hard stop and the profit target alike, got the SELL order of the stop
\* only, and the order was not filled: the position is still open
C15_Witness ==
    \E c \in TickCallers :
      \E k \in Indices(tick_trace[c]) :
        LET ev == tick_trace[c][k]
        IN /\ ev.step = "check"
           /\ config.profit_target_2_pct = 0
           /\ Len(ev.orders) = 1
           /\ ev.orders[1].reason = "stop_loss"
           /\ positions[ev.position].unrealized_pnl = 0
           /\ positions[ev.position].status = "open"

\* C20: every row that is added to options_positions, for an executed
\* recommendation or for a broker position found by the reconciliation, has
\* cost_basis = avg_fill_price * quantity * 100 when it is added.
C20_CostBasisAtInsert ==
    [][\A i \in (Len(positions) + 1)..Len(positions') :
          positions'[i].cost_basis
            = positions'[i].avg_fill_price * positions'[i].quantity * 100]_vars

\* the table holds a row of an executed recommendation and an external row
\* of the reconciliation
C20_Witness ==
    /\ \E i \in Indices(positions) : positions[i].recommendation_id = None
    /\ \E i \in Indices(positions) : positions[i].recommendation_id # None


----------------------------------------------------------------------------
\* Claims on the quote guard and on the rules

\* what a call of a rule or of _update_and_check returned
Returned(fn) == rule_call.fn = fn /\ rule_out # None

\* C21: a quote whose mid is null, zero, negative or NaN, and a quote fetch
\* that raises, leave the stored price and unrealized P&L of the position as
\* they were, have no rule evaluated and no SELL order placed.
C21_BadQuoteDoesNothing ==
    Returned("_update_and_check") =>
        LET quote == rule_call.quote
            bad == \/ quote = None
                   \/ quote[1] = NullMid
                   \/ quote[1] = NaNMid
                   \/ quote[1][1] = "num" /\ quote[1][2] <= 0
            out == rule_out[1]
        IN bad => /\ out.db = <<rule_call.pos>>
                  /\ out.rules = <<>>
                  /\ out.orders = <<>>

\* a mid of zero was quoted for a position and the call returned
C21_Witness ==
    /\ Returned("_update_and_check")
    /\ rule_call.quote = <<Num(0)>>
    /\ rule_out[1].db[1].current_price = RuleAvgPrice
C23_ZeroQuoteRejected ==
    \A t \in Tasks :
        tloc[t].mid = <<0>> => tpc[t] = "zero_quote" /\ ~tloc[t].ordered
\* the actions a rule may return
CloseAll(reason) == <<[close_all |-> TRUE, quantity |-> 0, reason |-> reason]>>
SellSome(n) == <<[close_all |-> FALSE, quantity |-> n, reason |-> "profit_target"]>>

\* the loss, and the gain, of a position with a positive cost basis is at
\* least pct percent of the cost basis
LossAtLeast(pos, pct) == -(pos.unrealized_pnl) * 100 >= pct * pos.cost_basis
GainAtLeast(pos, pct) == pos.unrealized_pnl * 100 >= pct * pos.cost_basis

C25_TimeStopIffNearExpiryAndLosing ==
    Returned("check_time_stop") =>
        /\ rule_out[1] = IF /\ DaysToExpiry(rule_call.pos)
                                  <= rule_call.config.time_stop_dte
                            /\ rule_call.pos.unrealized_pnl < 0
                           THEN CloseAll("time_stop")
                           ELSE None
        /\ rule_call.pos.unrealized_pnl >= 0 => rule_out[1] = None

\* the time stop closed a losing position on the last day of the window
C25_Witness ==
    /\ Returned("check_time_stop")
    /\ DaysToExpiry(rule_call.pos) = rule_call.config.time_stop_dte
    /\ rule_call.pos.unrealized_pnl < 0
    /\ rule_out[1] = CloseAll("time_stop")

\* C26: check_stop_rules returns the hard-stop action whenever the hard stop
\* fires, also when the time stop fires too, and the position that breaches
\* both is closed with the hard-stop reason.
C26_HardStopFirst ==
    /\ Returned("check_stop_rules") =>
          (LossAtLeast(rule_call.pos, rule_call.config.hard_stop_pct)
             => rule_out[1] = CloseAll("stop_loss"))
    /\ Returned("_update_and_check") =>
          LET out == rule_out[1]
              row == out.db[1]
          IN (/\ out.rules # <<>>
              /\ LossAtLeast(row, rule_call.config.hard_stop_pct)
              /\ DaysToExpiry(row) <= rule_call.config.time_stop_dte)
             => /\ Len(out.orders) = 1
                /\ out.orders[1].reason = "stop_loss"
                /\ out.orders[1].quantity = rule_call.pos.quantity
                /\ rule_call.fills => /\ row.status = "closed"
                                      /\ row.close_reason = <<"stop_loss">>

\* a position that breached both stops was closed
C26_Witness ==
    /\ Returned("_update_and_check")
    /\ rule_call.fills
    /\ rule_out[1].rules # <<>>
    /\ rule_out[1].db[1].unrealized_pnl < 0
    /\ LossAtLeast(rule_out[1].db[1], rule_call.config.hard_stop_pct)
    /\ DaysToExpiry(rule_out[1].db[1]) <= rule_call.config.time_stop_dte
    /\ rule_out[1].db[1].close_reason = <<"stop_loss">>
\* C27: check_profit_targets returns at most one action: close-all when the
\* gain is at least profit_target_2_pct; else the sale of floor(quantity / 2)
\* contracts when the gain is at least profit_target_1_pct and quantity > 1;
\* else nothing.  A position of one contract is never partially closed, and
\* the partial sale of a position of q contracts stores q - floor(q / 2) >= 1
\* contracts; 4 contracts at +60 percent sell 2 and keep 2.
C27_ProfitLadder ==
    /\ Returned("check_profit_targets") =>
          LET pos == rule_call.pos
              cfg == rule_call.config
          IN /\ rule_out[1] =
                    IF GainAtLeast(pos, cfg.profit_target_2_pct)
                      THEN CloseAll("profit_target")
                    ELSE IF GainAtLeast(pos, cfg.profit_target_1_pct)
                            /\ pos.quantity > 1
                      THEN SellSome(pos.quantity \div 2)
                    ELSE None
             /\ (pos.quantity = 1 /\ rule_out[1] # None) => rule_out[1][1].close_all
    /\ Returned("_update_and_check") =>
          LET out == rule_out[1]
              q == rule_call.pos.quantity
              row == out.db[1]
          IN /\ Len(out.orders) <= 1
             /\ (/\ out.orders # <<>>
                 /\ out.orders[1].reason = "profit_target"
                 /\ out.orders[1].quantity < q)
                => /\ q > 1
                   /\ out.orders[1].quantity = q \div 2
                   /\ GainAtLeast(row, rule_call.config.profit_target_1_pct)
                   /\ ~GainAtLeast(row, rule_call.config.profit_target_2_pct)
                   /\ rule_call.fills => /\ row.status = "open"
                                         /\ row.quantity = q - q \div 2
                                         /\ row.quantity >= 1
             /\ (/\ rule_call.fills
                 /\ q = 4
                 /\ rule_call.quote = <<Num(16)>>
                 /\ rule_call.config.profit_target_1_pct = 50
                 /\ rule_call.config.profit_target_2_pct = 100)
                => /\ out.orders[1].quantity = 2
                   /\ row.quantity = 2

\* 4 contracts at +60 percent: 2 were sold and 2 are stored
C27_Witness ==
    /\ Returned("_update_and_check")
    /\ rule_call.fills
    /\ rule_call.pos.quantity = 4
    /\ rule_call.quote = <<Num(16)>>
    /\ rule_call.config.profit_target_1_pct = 50
    /\ Len(rule_out[1].orders) = 1
    /\ rule_out[1].orders[1].quantity = 2
    /\ rule_out[1].db[1].quantity = 2
    /\ rule_out[1].db[1].status = "open"

\* C28: check_allocation rejects exactly when account equity is zero or
\* negative or current exposure plus the new position exceeds equity *
\* max_allocation_pct / 100 (a total equal to the cap is approved), and gives
\* a non-empty reason either way; with a cap of 10 percent of 200000, 2000 on
\* top of 5000 is approved and 5000 on top of 18000 is rejected.
C28_AllocationCap ==
    Returned("check_allocation") =>
        LET new == rule_call.new_position_usd
            current == rule_call.current_options_total_usd
            equity == rule_call.account_equity
            out == rule_out[1]
        IN /\ ~out.approved <=> \/ equity <= 0
                                \/ (current + new) * 100 > equity * max_allocation_pct
           /\ NonEmptyReason(out.reason)
           /\ (new = 2000 /\ current = 5000 /\ equity = 200000) => out.approved
           /\ (new = 5000 /\ current = 18000 /\ equity = 200000) => ~out.approved

\* a trade that brings the exposure to the cap exactly was approved
C28_Witness ==
    /\ Returned("check_allocation")
    /\ rule_call.account_equity > 0
    /\ (rule_call.current_options_total_usd + rule_call.new_position_usd) * 100
         = rule_call.account_equity * max_allocation_pct
    /\ rule_out[1].approved
----------------------------------------------------------------------------
\* Claims on failures inside a tick

C30_SyncFailureSkipsSyncOnly ==
    \A c \in TickCallers :
        (tick_pc[c] = "idle" /\ Did(c, "sync"))
          => Did(c, "approved") /\ Did(c, "open")
----------------------------------------------------------------------------
\* Claims on the life of a position

\* the check a step of a caller has added to its trace, as a sequence of
\* none or one event
NewCheck(c) ==
    IF /\ Len(tick_trace'[c]) = Len(tick_trace[c]) + 1
       /\ tick_trace'[c][Len(tick_trace'[c])].step = "check"
      THEN <<tick_trace'[c][Len(tick_trace'[c])]>>
      ELSE <<>>

\* C31: a closed row is never changed again and no SELL order is placed for
\* it, and the quantity of an open row never grows.
C31_ClosedRowsImmutable ==
    [][/\ \A p \in Indices(positions) :
            /\ positions[p].status = "closed" => positions'[p] = positions[p]
            /\ positions[p].status = "open"
                 => positions'[p].quantity <= positions[p].quantity
       /\ \A c \in TickCallers :
            \A k \in Indices(NewCheck(c)) :
               \A i \in Indices(NewCheck(c)[k].orders) :
                  positions[NewCheck(c)[k].orders[i].position].status = "open"
      ]_vars
\* place_order is over
PlaceOrderOver == po_pc \in {"returned", "raised"}

\* C32 as stated: place_order waits no longer than the maximum, and when it
\* has returned or raised no live, unfilled order is left working at the
\* broker.
C32_NoLiveOrderLeft ==
    /\ po_elapsed <= OrderFillTimeoutSecs
    /\ PlaceOrderOver => ~trade.live

\* C32 amended: place_order waits no longer than the maximum; an order that
\* has by then not been reported Filled, PreSubmitted, Submitted or Cancelled
\* is cancelled at the broker before TimeoutError is raised; an order is left
\* working only if place_order returns it as a pending fill, the broker having
\* reported it PreSubmitted or Submitted, or raises for a reported Cancelled.
C32_CancelledAtTimeout ==
    /\ po_elapsed <= OrderFillTimeoutSecs
    /\ po_pc = "waiting" => po_elapsed < OrderFillTimeoutSecs
    /\ (PlaceOrderOver /\ po_out[1].type = "TimeoutError")
         => /\ po_elapsed = OrderFillTimeoutSecs
            /\ trade.cancel_requested
            /\ ~trade.live
    /\ (PlaceOrderOver /\ trade.live)
         => \/ /\ po_out[1].type = "Fill" /\ po_out[1].pending
               /\ po_out[1].status \in {"PreSubmitted", "Submitted"}
            \/ po_out[1].type = "RuntimeError" /\ po_out[1].status = "Cancelled"
    /\ (po_pc = "returned" /\ ~po_out[1].pending) => po_out[1].status = "Filled"

\* the maximum wait was over for an order still waiting to be submitted:
\* place_order has cancelled it and raised
C32_Witness ==
    /\ po_pc = "raised"
    /\ po_out[1].type = "TimeoutError"
    /\ po_out[1].status = "PendingSubmit"
    /\ po_elapsed = OrderFillTimeoutSecs
    /\ trade.cancel_requested
\* C33: between ticks the cost basis of every open position is the premium
\* paid for the contracts it still holds, avg_fill_price * quantity * 100,
\* also after a partial close.
C33_CostBasisOfCurrentQuantity ==
    (\A c \in TickCallers : tick_pc[c] = "idle") =>
        \A p \in Indices(positions) :
            positions[p].status = "open" =>
                positions[p].cost_basis
                  = positions[p].avg_fill_price * positions[p].quantity
                      * SharesPerContract

\* the realized P&L of the filled SELL orders of row p among the first n
\* orders: (fill price - avg_fill_price) * quantity sold * 100 each
RECURSIVE SellFillsTotal(_, _)
SellFillsTotal(p, n) ==
    IF n = 0 THEN 0
    ELSE SellFillsTotal(p, n - 1)
           + (IF orders[n].position = p /\ orders[n].filled
                THEN (orders[n].fill_price - positions[p].avg_fill_price)
                       * orders[n].quantity * SharesPerContract
                ELSE 0)

\* C34: the realized_pnl of a row is the sum, over the SELL fills of the row,
\* of (fill price - avg_fill_price) * quantity sold * 100, through the partial
\* closes and at the close; and the outcome put on the thesis at the close is
\* the realized_pnl of the closed row.
C34_RealizedPnlIsSumOfFills ==
    \A p \in Indices(positions) :
        /\ positions[p].realized_pnl = SellFillsTotal(p, Len(orders))
        /\ \A j \in Indices(thesis_outcomes) :
              thesis_outcomes[j].position_id = p
                => thesis_outcomes[j].realized_pnl = positions[p].realized_pnl

\* C35: at most one BUY order is ever placed for a recommendation, however
\* the tick loop, the auto-approve path and the approvals interleave.
C35_OneBuyPerRecommendation ==
    \A r \in RecIds :
        Cardinality({i \in Indices(orders) :
                        orders[i].rec = r /\ orders[i].side = "BUY"}) <= 1

\* C36: every SELL order is for a quantity above zero; a SELL order that is
\* filled sells no more than the row still holds, so that the orders of a
\* position never sell more than was opened; and after a partial close the
\* row holds what it held less the quantity sold.  Stated of the rows that no
\* reconciliation has closed.
C36_NeverOversold ==
    [][\A c \in TickCallers :
         \A k \in Indices(NewCheck(c)) :
            \A i \in Indices(NewCheck(c)[k].orders) :
               LET o == NewCheck(c)[k].orders[i]
                   held == IF positions[o.position].status = "open"
                             THEN positions[o.position].quantity ELSE 0
               IN /\ o.quantity > 0
                  /\ (o.filled /\ positions[o.position].close_reason # <<"external">>)
                       => /\ o.quantity <= held
                          /\ positions'[o.position].status = "open"
                               => positions'[o.position].quantity
                                    = held - o.quantity
      ]_vars

\* C37: when _execute_recommendation has placed a BUY order that is filled,
\* the exposure of the open positions plus the notional of the order,
\* quantity * limit price * 100, is within equity * max_allocation_pct / 100,
\* and the notional is within the position_size_usd the allocation check
\* approved.
C37_BuyWithinAllocation ==
    (Returned("_execute_recommendation") /\ rule_out[1].status = "filled") =>
        LET row == rule_out[1].db[Len(rule_out[1].db)]
            notional == row.quantity * row.avg_fill_price * SharesPerContract
        IN /\ (TotalOptionsExposure(rule_call.rows) + notional) * 100
                 <= rule_call.account_equity * max_allocation_pct
           /\ notional <= rec_size[1]

\* C38: the row stored for an executed recommendation is not closed while
\* its BUY order is pending at the broker, and once the order is filled the
\* broker position is matched to that row: no row without recommendation is
\* stored for the contract id of the order.
C38_LineageKept ==
    [][/\ (OrderPending /\ positions[RecRow].status = "open")
            => positions'[RecRow].status = "open"
       /\ \A i \in Indices(positions') :
            positions'[i].ib_con_id = <<RecConId>>
              => positions'[i].recommendation_id # None
      ]_vars

\* C39: a recommendation whose status is failed has no position row: no BUY
\* order of it returned a fill; and a recommendation whose BUY order
\* returned a fill, so that its row is stored, is not failed, whatever raises
\* after the order.
C39_FailedHasNoPosition ==
    \A r \in RecIds :
        rec_status[r] = "failed"
          => \A i \in Indices(positions) : positions[i].recommendation_id # <<r>>

\* task t is inside _execute_recommendation and has written executing
InExecution(t) == tpc[t] \notin {"idle", "auto_notify", "exec_begin"}

\* C40: when an execution that has moved a recommendation to executing
\* returns, the status it leaves is filled or failed, whichever broker or
\* notifier call has raised; and when no execution is in flight, no
\* recommendation is executing.
C40_NoneLeftExecuting ==
    [][/\ \A t \in Tasks :
            (InExecution(t) /\ ~InExecution(t)')
              => rec_status'[tloc[t].rec] \in {"filled", "failed"}
       /\ (\A t \in Tasks : ~InExecution(t)')
            => \A r \in RecIds : rec_status'[r] # "executing"
      ]_vars

\* place_order has raised for a recommendation, or the notifier after its
\* fill; the execution has returned, and no tick is in flight
C40_Witness ==
    \E r \in RecIds :
      /\ rec_status[r] = "failed"
      /\ rec_reason[r] \in {Str(e) : e \in Exceptions}
      /\ \E i \in Indices(orders) : orders[i].rec = r
      /\ \A t \in Tasks : tpc[t] = "idle"
====
